---------------------------- MODULE Spec2Model ----------------------------
(***************************************************************************)
(* A model of the quota gate, the chat store and the chat turn endpoint   *)
(* of the deep-search application:                                        *)
(*   server/db/queries.ts   checkRateLimit, recordUserRequest,            *)
(*                          upsertChat, getChat, getChats                 *)
(*   app/api/chat/route.ts  POST                                          *)
(*   unnamed/part_002       POST with the isNewChat flag of the body      *)
(*   unnamed/part_005       POST with the tools searchWeb and scrapePages *)
(* The database tables are the variables; every query of queries.ts is an *)
(* operator over the tables; the turn endpoint is a process per request,  *)
(* split at the points where the handler awaits.                          *)
(***************************************************************************)
EXTENDS Integers, Sequences, FiniteSets, Bags, TLC

(***************************************************************************)
(* Program constants.                                                      *)
(***************************************************************************)
DAILY_REQUEST_LIMIT == 50

TITLE_SLICE == 100

(***************************************************************************)
(* Bounds of the model.                                                    *)
(***************************************************************************)
\* Clock ticks in one local day; Midnight rounds down to a multiple of it.
DayLen == 2

\* The clock runs from 0 to MaxTime.
MaxTime == 2

\* Longest message list a caller hands to upsertChat directly.
MaxLen == 2

\* Most tool calls the model issues in one step.
MaxCalls == 3

(***************************************************************************)
(* Values.                                                                 *)
(***************************************************************************)
\* The users table (users.id, users.isAdmin).
users == [alice |-> [isAdmin |-> FALSE], root |-> [isAdmin |-> TRUE]]

UserIds == DOMAIN users

ChatIds == {"c1", "c2"}

Times == 0 .. MaxTime

\* An optional value: None is undefined, Some(x) is x.
None == << >>

Some(x) == << x >>

\* Strings are sequences of characters, so that slice() can be computed.
EmptyStr == << >>

Question == << "q" >>

Answer == << "r" >>

NEW_CHAT == << "N", "e", "w", " ", "C", "h", "a", "t" >>

\* A part of a message that holds text: {type: "text", text}
TextPart(text) == [type |-> "text", text |-> text]

\* A Message of the ai package: role, content and parts.
\* UserMsg is a user message as the client sends it; StoredUserMsg is the same
\* message as getChat of queries.ts returns it (content is not persisted);
\* AssistantMsg is a message of the model.
UserMsg == [role |-> "user", content |-> Question, parts |-> << TextPart(Question) >>]

StoredUserMsg == [role |-> "user", content |-> EmptyStr, parts |-> << TextPart(Question) >>]

AssistantMsg == [role |-> "assistant", content |-> Answer, parts |-> << TextPart(Answer) >>]

StoredAssistantMsg == [role |-> "assistant", content |-> EmptyStr, parts |-> << TextPart(Answer) >>]

Min(a, b) == IF a < b THEN a ELSE b

Max(a, b) == IF a > b THEN a ELSE b

\* String.prototype.slice(0, n)
Slice(s, n) == SubSeq(s, 1, Min(Len(s), n))

VARIABLES
    now,        \* the wall clock (new Date())
    requests,   \* table requests: a bag of rows [userId, createdAt]
    chats,      \* table chats: id -> [userId, title, updatedAt]
    messages,   \* table messages: chatId -> the rows [chatId, role, parts, order]
                \* with that chatId, in the order of their insertion
    last,       \* the last direct call of upsertChat and what it returned
    turns,      \* the requests to the turn endpoint, by slot
    agents,     \* the requests to the turn endpoint with tools, by slot
    crawl,      \* the call of the scrapePages tool under way
    upserts,    \* the calls of upsertChat under way, one query at a time
    step        \* one model step of streamText: its tool calls and results

vars == << now, requests, chats, messages, last, turns, agents, crawl, upserts, step >>

(***************************************************************************)
(* queries.ts: the quota gate.                                             *)
(***************************************************************************)
\* A window that never moves: the day starts at tick 0 for ever.
MidnightNever(t) == 0

\* today = new Date(); today.setHours(0, 0, 0, 0)
Midnight(t) == t - (t % DayLen)

\* select count() from requests where userId = u and createdAt >= today
RequestCountRows(reqs, t, userId) ==
    LET hit == { r \in BagToSet(reqs) : r.userId = userId /\ r.createdAt >= Midnight(t) }
        RECURSIVE Sum(_)
        Sum(S) == IF S = {} THEN 0
                  ELSE LET r == CHOOSE x \in S : TRUE
                       IN  CopiesIn(r, reqs) + Sum(S \ {r})
    IN  << [count |-> Sum(hit)] >>

\* getUserRequestCountToday, given the rows the count query returned:
\* result[0]?.count ?? 0
CountOfRows(result) == IF Len(result) > 0 THEN result[1].count ELSE 0

getUserRequestCountToday(reqs, t, userId) == CountOfRows(RequestCountRows(reqs, t, userId))

\* The admin flag ignored.
NeverAdmin(userId) == FALSE

\* isUserAdmin: result[0]?.isAdmin ?? false
isUserAdmin(userId) == IF userId \in DOMAIN users THEN users[userId].isAdmin ELSE FALSE

\* The gate with <= in place of <.
RateLimitInclusive(userId, requestCount) ==
    IF isUserAdmin(userId)
    THEN [allowed |-> TRUE, remaining |-> -1, limit |-> -1]
    ELSE [allowed   |-> requestCount <= DAILY_REQUEST_LIMIT,
          remaining |-> Max(0, DAILY_REQUEST_LIMIT - requestCount),
          limit     |-> DAILY_REQUEST_LIMIT]

\* checkRateLimit, given the request count of today
RateLimitOf(userId, requestCount) ==
    IF isUserAdmin(userId)
    THEN [allowed |-> TRUE, remaining |-> -1, limit |-> -1]
    ELSE [allowed   |-> requestCount < DAILY_REQUEST_LIMIT,
          remaining |-> Max(0, DAILY_REQUEST_LIMIT - requestCount),
          limit     |-> DAILY_REQUEST_LIMIT]

checkRateLimit(reqs, t, userId) == RateLimitOf(userId, getUserRequestCountToday(reqs, t, userId))

\* recordUserRequest: insert into requests (userId), createdAt defaults to now
recordUserRequest(reqs, t, userId) == reqs (+) SetToBag({[userId |-> userId, createdAt |-> t]})

(***************************************************************************)
(* queries.ts: the chat store.                                             *)
(***************************************************************************)
\* delete from messages where chatId = c
DeleteMessages(ms, chatId) == [ms EXCEPT ![chatId] = << >>]

\* Rows numbered from 1.
MessageValuesOneBased(chatId, messageList) ==
    [i \in 1 .. Len(messageList) |->
        [chatId |-> chatId, role |-> messageList[i].role,
         parts |-> messageList[i].parts, order |-> i]]

\* messageList.map((message, index) => ({chatId, role, parts, order: index}))
MessageValues(chatId, messageList) ==
    [i \in 1 .. Len(messageList) |->
        [chatId |-> chatId, role |-> messageList[i].role,
         parts |-> messageList[i].parts, order |-> i - 1]]

\* insert into messages values (...): every row lands with the rows of its chat
RECURSIVE InsertRows(_, _)
InsertRows(ms, rows) ==
    IF rows = << >> THEN ms
    ELSE InsertRows([ms EXCEPT ![Head(rows).chatId] = Append(@, Head(rows))], Tail(rows))

\* if (messageList.length > 0) insert into messages values (...)
InsertMessages(ms, chatId, messageList) ==
    IF Len(messageList) > 0 THEN InsertRows(ms, MessageValues(chatId, messageList)) ELSE ms

\* The update of an existing chat that leaves updatedAt as it was.
UpdateDataKeepsTime(chat, title, t) ==
    [chat EXCEPT !.title = IF title # None THEN title[1] ELSE chat.title]

\* The update of an existing chat: updatedAt, and the title only if provided.
UpdateData(chat, title, t) ==
    [chat EXCEPT !.updatedAt = t,
                 !.title = IF title # None THEN title[1] ELSE chat.title]

\* !title : undefined or the empty string
TitleMissing(title) == title = None \/ title[1] = EmptyStr

\* upsertChat creating a chat under the default title when none is given.
UpsertChatDefaultTitle(cs, ms, t, userId, chatId, title, messageList) ==
    IF chatId \in DOMAIN cs
    THEN IF cs[chatId].userId # userId
         THEN [error |-> "PermissionDenied", chats |-> cs, messages |-> ms]
         ELSE [error |-> "ok",
               chats |-> [cs EXCEPT ![chatId] = UpdateData(cs[chatId], title, t)],
               messages |-> InsertMessages(DeleteMessages(ms, chatId), chatId, messageList)]
    ELSE [error |-> "ok",
          chats |-> cs @@ (chatId :> [userId |-> userId,
                                      title |-> IF TitleMissing(title) THEN NEW_CHAT ELSE title[1],
                                      updatedAt |-> t]),
          messages |-> InsertMessages(ms, chatId, messageList)]

\* upsertChat without the ownership test.
UpsertChatNoPermission(cs, ms, t, userId, chatId, title, messageList) ==
    IF chatId \in DOMAIN cs
    THEN [error |-> "ok",
          chats |-> [cs EXCEPT ![chatId] = UpdateData(cs[chatId], title, t)],
          messages |-> InsertMessages(DeleteMessages(ms, chatId), chatId, messageList)]
    ELSE IF TitleMissing(title)
         THEN [error |-> "TitleRequired", chats |-> cs, messages |-> ms]
         ELSE [error |-> "ok",
               chats |-> cs @@ (chatId :> [userId |-> userId, title |-> title[1], updatedAt |-> t]),
               messages |-> InsertMessages(ms, chatId, messageList)]

\* upsertChat without the delete of the old rows.
UpsertChatNoDelete(cs, ms, t, userId, chatId, title, messageList) ==
    IF chatId \in DOMAIN cs
    THEN IF cs[chatId].userId # userId
         THEN [error |-> "PermissionDenied", chats |-> cs, messages |-> ms]
         ELSE [error |-> "ok",
               chats |-> [cs EXCEPT ![chatId] = UpdateData(cs[chatId], title, t)],
               messages |-> InsertMessages(ms, chatId, messageList)]
    ELSE IF TitleMissing(title)
         THEN [error |-> "TitleRequired", chats |-> cs, messages |-> ms]
         ELSE [error |-> "ok",
               chats |-> cs @@ (chatId :> [userId |-> userId, title |-> title[1], updatedAt |-> t]),
               messages |-> InsertMessages(ms, chatId, messageList)]

\* upsertChat({userId, chatId, title, messages}) on tables cs, ms at time t.
\* The result holds the tables after the call and the error thrown, if any.
upsertChat(cs, ms, t, userId, chatId, title, messageList) ==
    IF chatId \in DOMAIN cs
    THEN IF cs[chatId].userId # userId
         THEN [error |-> "PermissionDenied", chats |-> cs, messages |-> ms]
         ELSE [error |-> "ok",
               chats |-> [cs EXCEPT ![chatId] = UpdateData(cs[chatId], title, t)],
               messages |-> InsertMessages(DeleteMessages(ms, chatId), chatId, messageList)]
    ELSE IF TitleMissing(title)
         THEN [error |-> "TitleRequired", chats |-> cs, messages |-> ms]
         ELSE [error |-> "ok",
               chats |-> cs @@ (chatId :> [userId |-> userId, title |-> title[1], updatedAt |-> t]),
               messages |-> InsertMessages(ms, chatId, messageList)]

\* select from messages where chatId = c: the positions of the chat's rows
ChatRows(ms, chatId) == { i \in 1 .. Len(ms[chatId]) : ms[chatId][i].chatId = chatId }

\* order by messages.order asc, over the rows at positions S of the chat
RECURSIVE OrderByAsc(_, _)
OrderByAsc(rows, S) ==
    IF S = {} THEN << >>
    ELSE LET m == CHOOSE i \in S : \A j \in S :
                      \/ rows[i].order < rows[j].order
                      \/ rows[i].order = rows[j].order /\ i <= j
         IN  << rows[m] >> \o OrderByAsc(rows, S \ {m})

\* chatMessages.map((msg) => ({id, role, parts, content: ""}))
MessageOfRow(row) == [role |-> row.role, parts |-> row.parts, content |-> EmptyStr]

MessageList(rows) == [i \in 1 .. Len(rows) |-> MessageOfRow(rows[i])]

Null == [found |-> FALSE]

\* getChat selecting the chat by its id alone.
GetChatAnyOwner(cs, ms, chatId, userId) ==
    IF chatId \in DOMAIN cs
    THEN [found |-> TRUE, id |-> chatId, userId |-> cs[chatId].userId,
          title |-> cs[chatId].title, updatedAt |-> cs[chatId].updatedAt,
          messages |-> MessageList(OrderByAsc(ms[chatId], ChatRows(ms, chatId)))]
    ELSE Null

\* getChat(chatId, userId)
getChat(cs, ms, chatId, userId) ==
    IF chatId \in DOMAIN cs /\ cs[chatId].userId = userId
    THEN [found |-> TRUE, id |-> chatId, userId |-> cs[chatId].userId,
          title |-> cs[chatId].title, updatedAt |-> cs[chatId].updatedAt,
          messages |-> MessageList(OrderByAsc(ms[chatId], ChatRows(ms, chatId)))]
    ELSE Null

\* select from chats where userId = u: the ids of the user's chats
UserChats(cs, userId) == { c \in DOMAIN cs : cs[c].userId = userId }

\* select({id, title, createdAt, updatedAt}): the listed columns of one chat
ChatSummary(cs, c) == [id |-> c, title |-> cs[c].title, updatedAt |-> cs[c].updatedAt]

\* getChats ordering by updatedAt ascending.
GetChatsAscending(cs, userId) ==
    LET S == UserChats(cs, userId)
    IN  { L \in [1 .. Cardinality(S) -> { ChatSummary(cs, c) : c \in S }] :
            /\ \A i, j \in DOMAIN L : L[i].id = L[j].id => i = j
            /\ \A i, j \in DOMAIN L : i < j => L[i].updatedAt <= L[j].updatedAt }

\* getChats(userId): every list the query may return. The rows are ordered by
\* updatedAt descending and by nothing else, so that rows with the same
\* updatedAt come in any order.
getChats(cs, userId) ==
    LET S == UserChats(cs, userId)
    IN  { L \in [1 .. Cardinality(S) -> { ChatSummary(cs, c) : c \in S }] :
            /\ \A i, j \in DOMAIN L : L[i].id = L[j].id => i = j
            /\ \A i, j \in DOMAIN L : i < j => L[i].updatedAt >= L[j].updatedAt }

(***************************************************************************)
(* route.ts: the state of one request to the turn endpoint.                *)
(***************************************************************************)
\* The requests in flight: two slots, each serving one request.
TurnIds == {1, 2}

\* auth() found no session
NoSession == "anonymous"

\* body.chatId is undefined
NoChat == "undefined"

NoRateLimit == [allowed |-> FALSE, remaining |-> 0, limit |-> 0]

\* pc: "idle", "upsertChat", "execute", "streamText", "streaming", "done"
\* countQuery: what the count query of checkRateLimit did
\* status: the HTTP status of the response; payload: the quota payload
\* stream: "", "finished" (onFinish ran), "error" (failed or aborted)
\* saved: "", "ok", or the error the final upsertChat threw and onFinish logged
\* prior: what getChat returned for body.chatId when the request arrived
\* events: the data the handler wrote to the stream with dataStream.writeData
IdleTurn ==
    [pc |-> "idle", userId |-> NoSession, chatId |-> NoChat, messages |-> << >>,
     finalChatId |-> NoChat, title |-> EmptyStr, countQuery |-> "",
     rateLimit |-> NoRateLimit, status |-> 0, payload |-> NoRateLimit,
     recorded |-> 0, modelCalls |-> 0, stream |-> "", saved |-> "", prior |-> Null,
     events |-> << >>]

(***************************************************************************)
(* Direct calls of the chat store.                                         *)
(***************************************************************************)
NoCall == [error |-> "none", userId |-> "", chatId |-> "", messages |-> << >>, repeat |-> FALSE]

\* A history of n messages, user and assistant taking turns.
Conversation(userFirst, n) ==
    [i \in 1 .. n |-> IF (i % 2 = 1) = userFirst THEN UserMsg ELSE AssistantMsg]

StoreLists == { Conversation(f, n) : f \in BOOLEAN, n \in 0 .. MaxLen }

StoreTitles == {None, Some(EmptyStr), Some(Question)}

\* One call upsertChat({userId, chatId, title, messages: messageList}).
UpsertChatCall(userId, chatId, title, messageList) ==
    LET r == upsertChat(chats, messages, now, userId, chatId, title, messageList)
    IN  /\ chats' = r.chats
        /\ messages' = r.messages
        /\ last' = [error |-> r.error, userId |-> userId, chatId |-> chatId,
                    messages |-> IF r.error = "ok" THEN messageList ELSE << >>,
                    repeat |-> /\ last.error = "ok" /\ r.error = "ok"
                               /\ last.userId = userId /\ last.chatId = chatId
                               /\ last.messages = messageList]
        /\ UNCHANGED << now, requests, turns, agents, crawl, upserts, step >>

StoreCall ==
    \E userId \in UserIds, chatId \in ChatIds, title \in StoreTitles, messageList \in StoreLists :
        UpsertChatCall(userId, chatId, title, messageList)

\* Time passes.
Tick ==
    /\ now < MaxTime
    /\ now' = now + 1
    /\ UNCHANGED << requests, chats, messages, last, turns, agents, crawl, upserts, step >>

InitStore ==
    /\ now = 0
    /\ requests = EmptyBag
    /\ chats = << >>
    /\ messages = [c \in ChatIds |-> << >>]
    /\ last = NoCall
    /\ turns = [t \in TurnIds |-> IdleTurn]
    /\ agents = << >>
    /\ crawl = << >>
    /\ upserts = << >>
    /\ step = << >>

NextStore == StoreCall \/ Tick

SpecStore == InitStore /\ [][NextStore]_vars

(***************************************************************************)
(* route.ts: POST, the turn endpoint.                                      *)
(***************************************************************************)
\* messages.find((msg) => msg.role === "user")?.content?.slice(0, 100) ?? "New Chat"
DeriveTitle(msgs) ==
    LET userAt == { i \in 1 .. Len(msgs) : msgs[i].role = "user" }
    IN  IF userAt = {} THEN NEW_CHAT
        ELSE LET first == CHOOSE i \in userAt : \A j \in userAt : i <= j
             IN  Slice(msgs[first].content, TITLE_SLICE)

\* The messages of the model alone, the history dropped.
ResponseMessagesOnly(msgs, responseMessages) == responseMessages

\* The parts of the messages of the model (response.messages): a call of a
\* tool in an assistant message, and its result in a tool message. The
\* result of a call is known by the id of the call.
ToolCallPart(id, tool) == [type |-> "tool-call", toolCallId |-> id, toolName |-> tool]

ResultOf(id) == << "result", id >>

ToolResultPart(id, tool) ==
    [type |-> "tool-result", toolCallId |-> id, toolName |-> tool, result |-> ResultOf(id)]

\* The part of a message of the conversation that stands for a tool call:
\* state "call" until its result is attached, "result" after.
ToolInvocation(id, tool) ==
    [type |-> "tool-invocation", toolCallId |-> id, toolName |-> tool,
     state |-> "call", result |-> None]

\* The part of the conversation's message made of a part of an assistant
\* message of the model: text stays text, a tool call becomes an invocation.
UIPart(part) ==
    IF part.type = "tool-call" THEN ToolInvocation(part.toolCallId, part.toolName) ELSE part

RECURSIVE UIParts(_)
UIParts(parts) ==
    IF parts = << >> THEN << >>
    ELSE << UIPart(Head(parts)) >> \o UIParts(Tail(parts))

\* The results handed out in the order of their arrival: the first result
\* goes to the first invocation, the second to the second.
RECURSIVE AttachResultsByPosition(_, _)
AttachResultsByPosition(parts, results) ==
    IF parts = << >> THEN << >>
    ELSE IF results # << >> /\ Head(parts).type = "tool-invocation" /\ Head(parts).state = "call"
    THEN << [Head(parts) EXCEPT !.toolCallId = Head(results).toolCallId,
                                !.toolName = Head(results).toolName,
                                !.state = "result",
                                !.result = Some(Head(results).result)] >>
             \o AttachResultsByPosition(Tail(parts), Tail(results))
    ELSE << Head(parts) >> \o AttachResultsByPosition(Tail(parts), results)

\* A part after the results of a tool message are in: the invocation that
\* has the toolCallId of a result takes that result.
AttachResult(part, results) ==
    IF /\ part.type = "tool-invocation"
       /\ \E k \in 1 .. Len(results) : results[k].toolCallId = part.toolCallId
    THEN LET k == CHOOSE k \in 1 .. Len(results) : results[k].toolCallId = part.toolCallId
         IN  [part EXCEPT !.state = "result", !.result = Some(results[k].result)]
    ELSE part

\* The results of a tool message are attached to the invocations that have
\* their toolCallId, which stay where they are.
RECURSIVE AttachResults(_, _)
AttachResults(parts, results) ==
    IF parts = << >> THEN << >>
    ELSE << AttachResult(Head(parts), results) >> \o AttachResults(Tail(parts), results)

\* One message of the model joins the conversation: an assistant message
\* extends the assistant message the conversation ends with, or begins a new
\* one; a tool message attaches its results to that assistant message.
AppendResponseMessage(msgs, m) ==
    LET n == Len(msgs)
    IN  IF m.role = "tool"
        THEN [msgs EXCEPT ![n].parts = AttachResults(@, m.parts)]
        ELSE IF n > 0 /\ msgs[n].role = "assistant"
        THEN [msgs EXCEPT ![n].content = m.content, ![n].parts = @ \o UIParts(m.parts)]
        ELSE Append(msgs, [role |-> "assistant", content |-> m.content,
                           parts |-> UIParts(m.parts)])

\* appendResponseMessages({messages, responseMessages}): the messages of the
\* model join the conversation one after the other.
RECURSIVE appendResponseMessages(_, _)
appendResponseMessages(msgs, responseMessages) ==
    IF responseMessages = << >> THEN msgs
    ELSE CHOOSE updated \in
             { appendResponseMessages(next, rest) :
                   next \in { AppendResponseMessage(msgs, Head(responseMessages)) },
                   rest \in { Tail(responseMessages) } } : TRUE

\* response.messages of a finished model call
ResponseMessages == << AssistantMsg >>

\* The message lists of a request body: a first question, and a follow-up
\* on a history loaded with getChat.
BodyLists ==
    { << UserMsg >>,
      << StoredUserMsg, StoredAssistantMsg, UserMsg >> }

\* What the count query of getUserRequestCountToday can do: return its one
\* row, return no row, or fail.
CountQueryOutcomes == {"rows", "empty", "throws"}

\* randomUUID(): an id no chat and no other request has
FreshIds == { id \in ChatIds : id \notin DOMAIN chats /\ \A s \in TurnIds : turns[s].finalChatId # id }

\* A denial that still appends the row of the request.
DeniedButRecorded(t, turn) ==
    /\ turns' = [turns EXCEPT ![t] = [turn EXCEPT !.pc = "done", !.status = 429,
                                                  !.payload = turn.rateLimit]]
    /\ requests' = recordUserRequest(requests, now, turn.userId)
    /\ UNCHANGED << now, chats, messages, last, agents, crawl, upserts, step >>

\* The response of a request refused for quota: status 429 with the payload
\* {error, message, remaining, limit}; nothing else is touched.
Denied(t, turn) ==
    /\ turns' = [turns EXCEPT ![t] = [turn EXCEPT !.pc = "done", !.status = 429,
                                                  !.payload = turn.rateLimit]]
    /\ UNCHANGED << now, requests, chats, messages, last, agents, crawl, upserts, step >>

\* POST reading the body, asking the gate and recording the request before
\* it looks at the session.
PostSessionLast(t, session, chatId, msgs, finalChatId, countQuery) ==
    /\ turns[t].pc = "idle"
    /\ \A s \in TurnIds : s < t => turns[s].pc # "idle"
    /\ LET arrived == [IdleTurn EXCEPT !.userId = session, !.chatId = chatId,
                                       !.messages = msgs,
                                       !.prior = getChat(chats, messages, chatId, session)]
           checked == [arrived EXCEPT
                          !.countQuery = countQuery,
                          !.rateLimit = RateLimitOf(session,
                                            getUserRequestCountToday(requests, now, session))]
       IN  IF session = NoSession
           THEN /\ turns' = [turns EXCEPT ![t] = [checked EXCEPT !.pc = "done", !.status = 401]]
                /\ requests' = recordUserRequest(requests, now, session)
                /\ UNCHANGED << now, chats, messages, last, agents, crawl, upserts, step >>
           ELSE IF ~checked.rateLimit.allowed
                THEN Denied(t, checked)
                ELSE /\ turns' = [turns EXCEPT ![t] =
                                     [checked EXCEPT !.pc = "upsertChat",
                                                     !.finalChatId = finalChatId,
                                                     !.title = DeriveTitle(msgs)]]
                     /\ UNCHANGED << now, requests, chats, messages, last, agents, crawl, upserts, step >>

\* POST up to the quota gate (route.ts lines 18-55): the session, the body,
\* checkRateLimit, and the chat id of the turn.
POST(t, session, chatId, msgs, finalChatId, countQuery) ==
    /\ turns[t].pc = "idle"
    /\ \A s \in TurnIds : s < t => turns[s].pc # "idle"
    /\ IF session = NoSession
       THEN /\ turns' = [turns EXCEPT ![t] = [IdleTurn EXCEPT !.pc = "done", !.status = 401]]
            /\ UNCHANGED << now, requests, chats, messages, last, agents, crawl, upserts, step >>
       ELSE LET arrived == [IdleTurn EXCEPT !.userId = session, !.chatId = chatId,
                                            !.messages = msgs,
                                            !.prior = getChat(chats, messages, chatId, session)]
            IN  IF ~isUserAdmin(session) /\ countQuery = "throws"
                THEN /\ turns' = [turns EXCEPT ![t] = [arrived EXCEPT !.pc = "done", !.status = 500,
                                                                      !.countQuery = countQuery]]
                     /\ UNCHANGED << now, requests, chats, messages, last, agents, crawl, upserts, step >>
                ELSE LET rows == IF countQuery = "empty" THEN << >>
                                 ELSE RequestCountRows(requests, now, session)
                         checked == [arrived EXCEPT
                                        !.countQuery = IF isUserAdmin(session) THEN "" ELSE countQuery,
                                        !.rateLimit = RateLimitOf(session, CountOfRows(rows))]
                     IN  IF ~checked.rateLimit.allowed
                         THEN Denied(t, checked)
                         ELSE /\ turns' = [turns EXCEPT ![t] =
                                              [checked EXCEPT !.pc = "upsertChat",
                                                              !.finalChatId = finalChatId,
                                                              !.title = DeriveTitle(msgs)]]
                              /\ UNCHANGED << now, requests, chats, messages, last, agents, crawl, upserts, step >>

\* The placeholder write with its error swallowed: the turn goes on.
PlaceholderErrorIgnored(t) ==
    /\ turns[t].pc = "upsertChat"
    /\ LET turn == turns[t]
           r == upsertChat(chats, messages, now, turn.userId, turn.finalChatId,
                           Some(turn.title), << >>)
       IN  /\ chats' = r.chats
           /\ messages' = r.messages
           /\ turns' = [turns EXCEPT ![t] = [turn EXCEPT !.pc = "execute", !.status = 200]]
    /\ UNCHANGED << now, requests, last, agents, crawl, upserts, step >>

\* The placeholder write (route.ts lines 61-68): upsertChat with no messages.
\* An error it throws leaves POST, and the response is a 500.
POST_upsertChat(t) ==
    /\ turns[t].pc = "upsertChat"
    /\ LET turn == turns[t]
           r == upsertChat(chats, messages, now, turn.userId, turn.finalChatId,
                           Some(turn.title), << >>)
       IN  /\ chats' = r.chats
           /\ messages' = r.messages
           /\ turns' = [turns EXCEPT ![t] =
                          IF r.error = "ok"
                          THEN [turn EXCEPT !.pc = "execute", !.status = 200]
                          ELSE [turn EXCEPT !.pc = "done", !.status = 500]]
    /\ UNCHANGED << now, requests, last, agents, crawl, upserts, step >>

\* execute going on to the model call with no row appended.
SkipRecordUserRequest(t) ==
    /\ turns[t].pc = "execute"
    /\ turns' = [turns EXCEPT ![t].pc = "streamText"]
    /\ UNCHANGED << now, requests, chats, messages, last, agents, crawl, upserts, step >>

\* execute (route.ts line 75): await recordUserRequest(session.user.id)
POST_recordUserRequest(t) ==
    /\ turns[t].pc = "execute"
    /\ requests' = recordUserRequest(requests, now, turns[t].userId)
    /\ turns' = [turns EXCEPT ![t].pc = "streamText", ![t].recorded = @ + 1]
    /\ UNCHANGED << now, chats, messages, last, agents, crawl, upserts, step >>

\* execute (route.ts line 77): streamText starts the model call
POST_streamText(t) ==
    /\ turns[t].pc = "streamText"
    /\ turns' = [turns EXCEPT ![t].pc = "streaming", ![t].modelCalls = @ + 1]
    /\ UNCHANGED << now, requests, chats, messages, last, agents, crawl, upserts, step >>

\* onFinish (route.ts lines 99-122): the final write of the whole
\* conversation; an error of upsertChat is caught and logged.
onFinish(t) ==
    /\ turns[t].pc = "streaming"
    /\ LET turn == turns[t]
           updatedMessages == appendResponseMessages(turn.messages, ResponseMessages)
           r == upsertChat(chats, messages, now, turn.userId, turn.finalChatId,
                           Some(turn.title), updatedMessages)
       IN  /\ chats' = r.chats
           /\ messages' = r.messages
           /\ turns' = [turns EXCEPT ![t] = [turn EXCEPT !.pc = "done", !.stream = "finished",
                                                         !.saved = r.error]]
    /\ UNCHANGED << now, requests, last, agents, crawl, upserts, step >>

\* A failed model call that gives the request back to the quota: the row
\* of the latest request of the user is taken off the ledger.
StreamErrorRefunds(t) ==
    /\ turns[t].pc = "streaming"
    /\ turns' = [turns EXCEPT ![t].pc = "done", ![t].stream = "error"]
    /\ LET mine == { r \in BagToSet(requests) : r.userId = turns[t].userId }
           latest == CHOOSE r \in mine : \A q \in mine : q.createdAt <= r.createdAt
       IN  requests' = IF mine = {} THEN requests ELSE requests (-) SetToBag({latest})
    /\ UNCHANGED << now, chats, messages, last, agents, crawl, upserts, step >>

\* A failed model call that takes the chat of a new-chat turn away again.
StreamErrorRollsBack(t) ==
    /\ turns[t].pc = "streaming"
    /\ turns' = [turns EXCEPT ![t].pc = "done", ![t].stream = "error"]
    /\ LET id == turns[t].finalChatId
       IN  IF turns[t].chatId = NoChat
           THEN /\ chats' = [c \in DOMAIN chats \ {id} |-> chats[c]]
                /\ messages' = DeleteMessages(messages, id)
           ELSE UNCHANGED << chats, messages >>
    /\ UNCHANGED << now, requests, last, agents, crawl, upserts, step >>

\* The model call fails or the request is aborted: the stream ends and
\* onFinish is never called.
StreamError(t) ==
    /\ turns[t].pc = "streaming"
    /\ turns' = [turns EXCEPT ![t].pc = "done", ![t].stream = "error"]
    /\ UNCHANGED << now, requests, chats, messages, last, agents, crawl, upserts, step >>

\* A request arrives with a chat id of the caller's choice or with none.
Arrive(t, countQuery) ==
    \E session \in UserIds \cup {NoSession}, msgs \in BodyLists :
        \/ \E chatId \in ChatIds : POST(t, session, chatId, msgs, chatId, countQuery)
        \/ \E id \in FreshIds : POST(t, session, NoChat, msgs, id, countQuery)

(***************************************************************************)
(* The tables when the server starts serving: the ledger holds the rows of *)
(* earlier requests of the day, and a chat may exist from an earlier turn. *)
(***************************************************************************)
SeedCounts == {0, DAILY_REQUEST_LIMIT - 1}

\* n calls of recordUserRequest for every user at time 0
SeedLedger(n) ==
    [r \in { [userId |-> u, createdAt |-> 0] : u \in IF n > 0 THEN UserIds ELSE {} } |-> n]

\* No chat, or the chat a finished first turn of alice has left.
SeedStores ==
    LET empty == [chats |-> << >>, messages |-> [c \in ChatIds |-> << >>]]
        turn1 == upsertChat(empty.chats, empty.messages, 0, "alice", "c1",
                            Some(DeriveTitle(<< UserMsg >>)),
                            appendResponseMessages(<< UserMsg >>, ResponseMessages))
    IN  { empty, [chats |-> turn1.chats, messages |-> turn1.messages] }

Init ==
    /\ now = 0
    /\ \E n \in SeedCounts : requests = SeedLedger(n)
    /\ \E store \in SeedStores : chats = store.chats /\ messages = store.messages
    /\ last = NoCall
    /\ turns = [t \in TurnIds |-> IdleTurn]
    /\ agents = << >>
    /\ crawl = << >>
    /\ upserts = << >>
    /\ step = << >>

Step(t) ==
    \/ POST_upsertChat(t)
    \/ POST_recordUserRequest(t)
    \/ POST_streamText(t)
    \/ onFinish(t)
    \/ StreamError(t)

\* The database answers every query.
Next ==
    \/ \E t \in TurnIds : Arrive(t, "rows")
    \/ \E t \in TurnIds : Step(t)
    \/ Tick

Spec == Init /\ [][Next]_vars

\* The count query may also return no row or fail (the clock stands still).
NextFaults ==
    \/ \E t \in TurnIds, countQuery \in CountQueryOutcomes : Arrive(t, countQuery)
    \/ \E t \in TurnIds : Step(t)

SpecFaults == Init /\ [][NextFaults]_vars

(***************************************************************************)
(* part_005: POST, the turn endpoint with the tools searchWeb and          *)
(* scrapePages. The step loop is the one of streamText: a model call, the  *)
(* tool executions it asks for, and again, at most maxSteps model calls.   *)
(***************************************************************************)
\* maxSteps: 10
MAX_STEPS == 10

\* slice(0, 50)
TITLE_BUDGET == 50

Ellipsis == << ".", ".", "." >>

\* One request at a time is served by this endpoint in the model.
AgentIds == {1}

ToolNames == {"searchWeb", "scrapePages"}

\* What one model call emits: text, or calls of one or both tools.
ModelOutputs == {{}} \cup (SUBSET ToolNames \ {{}})

\* The tool calls of a step, taken as one call: the id is the step's number.
ToolCall == "tools"

\* The response messages of a step that calls tools, and of its tool results.
ToolCallMsg(k) ==
    [role |-> "assistant", content |-> EmptyStr, parts |-> << ToolCallPart(k, ToolCall) >>]

ToolResultMsg(k) ==
    [role |-> "tool", content |-> EmptyStr, parts |-> << ToolResultPart(k, ToolCall) >>]

\* messages[messages.length - 1].content.slice(0, 50) + "..."
LastMessageTitle(msgs) == Slice(msgs[Len(msgs)].content, TITLE_BUDGET) \o Ellipsis

\* Whether execute of the tool hands its abortSignal to the call it makes:
\* searchWeb passes it to searchSerper; scrapePages calls
\* bulkCrawlWebsites({urls}) and leaves _abortSignal unused.
PassesAbortSignal(tool) == tool = "searchWeb"

\* pc: "idle", "execute", "model", "tools", "onFinish", "done"
\* events: the frames written to the data stream, the frames of the model's
\*         output merged into one
\* steps: the model calls made; calls: the tool executions of the step
\*        ("none", "running", "done", "cancelled")
\* finishReason: "stop" or "tool-calls"; response: response.messages
\* stream: "", "finished", "error"; saved: "", "ok" or the error of the final
\*         write; logged: console.error was called with it
\* aborted: the request was aborted while the loop ran
IdleAgent ==
    [pc |-> "idle", userId |-> NoSession, chatId |-> NoChat, messages |-> << >>,
     currentChatId |-> NoChat, status |-> 0, events |-> << >>, steps |-> 0,
     calls |-> [n \in ToolNames |-> "none"], finishReason |-> "", response |-> << >>,
     stream |-> "", saved |-> "", logged |-> FALSE, aborted |-> FALSE]

\* The message lists of a request body: none, a first question, a follow-up.
AgentBodyLists ==
    { << >>, << UserMsg >>, << StoredUserMsg, StoredAssistantMsg, UserMsg >> }

NewChatCreated(chatId) == [type |-> "NEW_CHAT_CREATED", chatId |-> chatId]

ModelFrame == [type |-> "model", chatId |-> NoChat]

\* A frame of the model's output goes to the stream.
WriteModelFrame(events) ==
    IF Len(events) > 0 /\ events[Len(events)] = ModelFrame THEN events
    ELSE Append(events, ModelFrame)

\* POST answering 403 for the chat of another user and 404 for a chat that
\* does not exist.
AgentPostForbidden(a, session, chatId, msgs, newChatId) ==
    /\ agents[a].pc = "idle"
    /\ LET arrived == [IdleAgent EXCEPT !.userId = session, !.chatId = chatId,
                                        !.messages = msgs]
       IN  IF session = NoSession
           THEN /\ agents' = [agents EXCEPT ![a] = [IdleAgent EXCEPT !.pc = "done", !.status = 401]]
                /\ UNCHANGED << chats, messages >>
           ELSE IF Len(msgs) = 0
           THEN /\ agents' = [agents EXCEPT ![a] = [arrived EXCEPT !.pc = "done", !.status = 400]]
                /\ UNCHANGED << chats, messages >>
           ELSE IF chatId = NoChat
           THEN LET r == upsertChat(chats, messages, now, session, newChatId,
                                    Some(LastMessageTitle(msgs)), msgs)
                IN  /\ chats' = r.chats
                    /\ messages' = r.messages
                    /\ agents' = [agents EXCEPT ![a] =
                                     IF r.error = "ok"
                                     THEN [arrived EXCEPT !.pc = "execute", !.status = 200,
                                                          !.currentChatId = newChatId]
                                     ELSE [arrived EXCEPT !.pc = "done", !.status = 500]]
           ELSE /\ agents' = [agents EXCEPT ![a] =
                                 IF chatId \notin DOMAIN chats
                                 THEN [arrived EXCEPT !.pc = "done", !.status = 404]
                                 ELSE IF chats[chatId].userId # session
                                 THEN [arrived EXCEPT !.pc = "done", !.status = 403]
                                 ELSE [arrived EXCEPT !.pc = "execute", !.status = 200,
                                                      !.currentChatId = chatId]]
                /\ UNCHANGED << chats, messages >>
    /\ UNCHANGED << now, requests, last, turns, crawl, upserts, step >>

\* POST up to the stream (part_005 lines 25-62): the session, the body, the
\* write of a new chat or the ownership test of an existing one.
AgentPOST(a, session, chatId, msgs, newChatId) ==
    /\ agents[a].pc = "idle"
    /\ LET arrived == [IdleAgent EXCEPT !.userId = session, !.chatId = chatId,
                                        !.messages = msgs]
       IN  IF session = NoSession
           THEN /\ agents' = [agents EXCEPT ![a] = [IdleAgent EXCEPT !.pc = "done", !.status = 401]]
                /\ UNCHANGED << chats, messages >>
           ELSE IF Len(msgs) = 0
           THEN /\ agents' = [agents EXCEPT ![a] = [arrived EXCEPT !.pc = "done", !.status = 400]]
                /\ UNCHANGED << chats, messages >>
           ELSE IF chatId = NoChat
           THEN LET r == upsertChat(chats, messages, now, session, newChatId,
                                    Some(LastMessageTitle(msgs)), msgs)
                IN  /\ chats' = r.chats
                    /\ messages' = r.messages
                    /\ agents' = [agents EXCEPT ![a] =
                                     IF r.error = "ok"
                                     THEN [arrived EXCEPT !.pc = "execute", !.status = 200,
                                                          !.currentChatId = newChatId]
                                     ELSE [arrived EXCEPT !.pc = "done", !.status = 500]]
           ELSE /\ agents' = [agents EXCEPT ![a] =
                                 IF chatId \notin DOMAIN chats \/ chats[chatId].userId # session
                                 THEN [arrived EXCEPT !.pc = "done", !.status = 404]
                                 ELSE [arrived EXCEPT !.pc = "execute", !.status = 200,
                                                      !.currentChatId = chatId]]
                /\ UNCHANGED << chats, messages >>
    /\ UNCHANGED << now, requests, last, turns, crawl, upserts, step >>

\* execute (part_005 lines 71-80): the NEW_CHAT_CREATED frame of a turn that
\* came without a chat id, then streamText.
Agent_execute(a) ==
    /\ agents[a].pc = "execute"
    /\ agents' = [agents EXCEPT ![a].pc = "model",
                                ![a].events = IF agents[a].chatId = NoChat
                                              THEN Append(@, NewChatCreated(agents[a].currentChatId))
                                              ELSE @]
    /\ UNCHANGED << now, requests, chats, messages, last, turns, crawl, upserts, step >>

\* One model call of streamText: the model answers with text, which ends the
\* loop, or asks for tools, whose executions start.
Agent_modelStep(a, out) ==
    /\ agents[a].pc = "model"
    /\ agents' = [agents EXCEPT ![a] =
          IF out = {}
          THEN [@ EXCEPT !.pc = "onFinish", !.steps = @ + 1, !.finishReason = "stop",
                         !.events = WriteModelFrame(@),
                         !.response = Append(@, AssistantMsg)]
          ELSE [@ EXCEPT !.pc = "tools", !.steps = @ + 1,
                         !.events = WriteModelFrame(@),
                         !.calls = [n \in ToolNames |-> IF n \in out THEN "running" ELSE "none"],
                         !.response = Append(@, ToolCallMsg(agents[a].steps + 1))]]
    /\ UNCHANGED << now, requests, chats, messages, last, turns, crawl, upserts, step >>

\* A tool execution under way comes to its end: searchSerper or
\* bulkCrawlWebsites returns and execute returns the tool's result.
ToolReturns(a, tool) ==
    /\ agents[a].calls[tool] = "running"
    /\ agents' = [agents EXCEPT ![a].calls[tool] = "done"]
    /\ UNCHANGED << now, requests, chats, messages, last, turns, crawl, upserts, step >>

searchWeb_execute(a) == ToolReturns(a, "searchWeb")

scrapePages_execute(a) == ToolReturns(a, "scrapePages")

\* The loop going on for one model call more than maxSteps.
NextStepInclusive(a) ==
    /\ agents[a].pc = "tools"
    /\ \A n \in ToolNames : agents[a].calls[n] # "running"
    /\ agents' = [agents EXCEPT ![a] =
          IF @.steps <= MAX_STEPS
          THEN [@ EXCEPT !.pc = "model", !.calls = [n \in ToolNames |-> "none"],
                         !.response = Append(@, ToolResultMsg(agents[a].steps))]
          ELSE [@ EXCEPT !.pc = "onFinish", !.calls = [n \in ToolNames |-> "none"],
                         !.finishReason = "tool-calls",
                         !.response = Append(@, ToolResultMsg(agents[a].steps))]]
    /\ UNCHANGED << now, requests, chats, messages, last, turns, crawl, upserts, step >>

\* The tool results of a step are in: another model call while fewer than
\* maxSteps were made, else the loop ends with finishReason tool-calls.
Agent_nextStep(a) ==
    /\ agents[a].pc = "tools"
    /\ \A n \in ToolNames : agents[a].calls[n] # "running"
    /\ agents' = [agents EXCEPT ![a] =
          IF @.steps < MAX_STEPS
          THEN [@ EXCEPT !.pc = "model", !.calls = [n \in ToolNames |-> "none"],
                         !.response = Append(@, ToolResultMsg(agents[a].steps))]
          ELSE [@ EXCEPT !.pc = "onFinish", !.calls = [n \in ToolNames |-> "none"],
                         !.finishReason = "tool-calls",
                         !.response = Append(@, ToolResultMsg(agents[a].steps))]]
    /\ UNCHANGED << now, requests, chats, messages, last, turns, crawl, upserts, step >>

\* What the database does with the final write, and what streamText does
\* with an onFinish that rejects: it fails the stream, so that onError logs
\* the error and the client reads the error frame, or it drops the rejection.
DbOutcomes == {"ok", "fails"}

RejectionOutcomes == {"stream fails", "dropped"}

\* onFinish (part_005 lines 174-195): await upsertChat of the whole
\* conversation; what it throws leaves onFinish.
Agent_onFinish(a, db, rejection) ==
    /\ agents[a].pc = "onFinish"
    /\ LET agent == agents[a]
           updatedMessages == appendResponseMessages(agent.messages, agent.response)
           r == IF db = "ok"
                THEN upsertChat(chats, messages, now, agent.userId, agent.currentChatId,
                                Some(LastMessageTitle(agent.messages)), updatedMessages)
                ELSE [error |-> "DbError", chats |-> chats, messages |-> messages]
       IN  /\ chats' = r.chats
           /\ messages' = r.messages
           /\ agents' = [agents EXCEPT ![a] =
                 IF r.error = "ok"
                 THEN [agent EXCEPT !.pc = "done", !.stream = "finished", !.saved = "ok"]
                 ELSE IF rejection = "stream fails"
                 THEN [agent EXCEPT !.pc = "done", !.stream = "error", !.saved = r.error,
                                    !.logged = TRUE]
                 ELSE [agent EXCEPT !.pc = "done", !.stream = "finished", !.saved = r.error]]
    /\ UNCHANGED << now, requests, last, turns, crawl, upserts, step >>

\* The request is aborted while the loop runs: the abortSignal fires, and
\* the tool executions that handed it on are cancelled.
Agent_abort(a) ==
    /\ agents[a].pc \in {"model", "tools"}
    /\ agents' = [agents EXCEPT ![a] =
          [@ EXCEPT !.pc = "done", !.stream = "error", !.aborted = TRUE,
                    !.calls = [n \in ToolNames |->
                                  IF @[n] = "running" /\ PassesAbortSignal(n)
                                  THEN "cancelled" ELSE @[n]]]]
    /\ UNCHANGED << now, requests, chats, messages, last, turns, crawl, upserts, step >>

AgentArrive(a) ==
    \E session \in UserIds \cup {NoSession}, msgs \in AgentBodyLists :
        \/ \E chatId \in ChatIds : AgentPOST(a, session, chatId, msgs, chatId)
        \/ \E id \in ChatIds \ DOMAIN chats : AgentPOST(a, session, NoChat, msgs, id)

InitAgent ==
    /\ now = 0
    /\ requests = EmptyBag
    /\ \E store \in SeedStores : chats = store.chats /\ messages = store.messages
    /\ last = NoCall
    /\ turns = [t \in TurnIds |-> IdleTurn]
    /\ agents = [a \in AgentIds |-> IdleAgent]
    /\ crawl = << >>
    /\ upserts = << >>
    /\ step = << >>

\* The steps of a request that the turn takes by itself.
AgentStep(a) ==
    \/ Agent_execute(a)
    \/ \E out \in ModelOutputs : Agent_modelStep(a, out)
    \/ searchWeb_execute(a)
    \/ scrapePages_execute(a)
    \/ Agent_nextStep(a)
    \/ \E db \in DbOutcomes, rejection \in RejectionOutcomes : Agent_onFinish(a, db, rejection)

NextAgent ==
    \/ \E a \in AgentIds : AgentArrive(a)
    \/ \E a \in AgentIds : AgentStep(a)
    \/ \E a \in AgentIds : Agent_abort(a)

SpecAgent == InitAgent /\ [][NextAgent]_vars

\* The model, the tools and the database answer in the end.
SpecAgentLive == SpecAgent /\ \A a \in AgentIds : WF_vars(AgentStep(a))

(***************************************************************************)
(* part_002: POST, the turn endpoint whose caller names the chat and says  *)
(* with isNewChat whether it is a new one.                                 *)
(***************************************************************************)
\* The request in flight at this endpoint: the locals of route.ts, isNewChat
\* of the body, and named: the owner of the chat with the body's chatId when
\* the request arrived ("" when there was none).
IdleNewChatTurn ==
    [pc |-> "idle", userId |-> NoSession, chatId |-> NoChat, messages |-> << >>,
     isNewChat |-> FALSE, named |-> "", title |-> None,
     rateLimit |-> NoRateLimit, status |-> 0, payload |-> NoRateLimit,
     recorded |-> 0, modelCalls |-> 0, stream |-> "", saved |-> "", events |-> << >>]

\* content.trim() is the empty string
IsBlank(s) == \A i \in 1 .. Len(s) : s[i] = " "

\* part_002 lines 55-74: the title of a new chat. "New Chat", unless the
\* first user message has a content that is not blank, or else a text part.
NewChatTitle(msgs) ==
    LET userAt == { i \in 1 .. Len(msgs) : msgs[i].role = "user" }
    IN  IF userAt = {} THEN NEW_CHAT
        ELSE LET firstUserMessage == msgs[CHOOSE i \in userAt : \A j \in userAt : i <= j]
                 parts == firstUserMessage.parts
                 textAt == { i \in 1 .. Len(parts) : parts[i].type = "text" }
             IN  IF ~IsBlank(firstUserMessage.content)
                 THEN Slice(firstUserMessage.content, TITLE_SLICE)
                 ELSE IF textAt # {}
                 THEN Slice(parts[CHOOSE i \in textAt : \A j \in textAt : i <= j].text, TITLE_SLICE)
                 ELSE NEW_CHAT

\* POST up to the response (part_002 lines 17-74): the session, the body,
\* checkRateLimit and the title.
NewChatPOST(t, session, chatId, isNewChat, msgs) ==
    /\ turns[t].pc = "idle"
    /\ \A s \in TurnIds : s < t => turns[s].pc # "idle"
    /\ IF session = NoSession
       THEN turns' = [turns EXCEPT ![t] = [IdleNewChatTurn EXCEPT !.pc = "done", !.status = 401]]
       ELSE LET rateLimit == checkRateLimit(requests, now, session)
                arrived == [IdleNewChatTurn EXCEPT
                               !.userId = session, !.chatId = chatId, !.messages = msgs,
                               !.isNewChat = isNewChat,
                               !.named = IF chatId \in DOMAIN chats THEN chats[chatId].userId ELSE "",
                               !.rateLimit = rateLimit]
            IN  IF ~rateLimit.allowed
                THEN turns' = [turns EXCEPT ![t] = [arrived EXCEPT !.pc = "done", !.status = 429,
                                                                   !.payload = rateLimit]]
                ELSE IF isNewChat
                THEN turns' = [turns EXCEPT ![t] = [arrived EXCEPT !.pc = "upsertChat",
                                                                   !.title = Some(NewChatTitle(msgs))]]
                ELSE turns' = [turns EXCEPT ![t] = [arrived EXCEPT !.pc = "execute", !.status = 200]]
    /\ UNCHANGED << now, requests, chats, messages, last, agents, crawl, upserts, step >>

\* The placeholder write of a new chat (part_002 lines 78-85). An error it
\* throws leaves POST, and the response is a 500.
NewChatPOST_upsertChat(t) ==
    /\ turns[t].pc = "upsertChat"
    /\ LET turn == turns[t]
           r == upsertChat(chats, messages, now, turn.userId, turn.chatId, turn.title, << >>)
       IN  /\ chats' = r.chats
           /\ messages' = r.messages
           /\ turns' = [turns EXCEPT ![t] =
                          IF r.error = "ok"
                          THEN [turn EXCEPT !.pc = "execute", !.status = 200]
                          ELSE [turn EXCEPT !.pc = "done", !.status = 500]]
    /\ UNCHANGED << now, requests, last, agents, crawl, upserts, step >>

\* execute (part_002 line 92): await recordUserRequest(session.user.id)
NewChatPOST_recordUserRequest(t) ==
    /\ turns[t].pc = "execute"
    /\ requests' = recordUserRequest(requests, now, turns[t].userId)
    /\ turns' = [turns EXCEPT ![t].pc = "streamText", ![t].recorded = @ + 1]
    /\ UNCHANGED << now, chats, messages, last, agents, crawl, upserts, step >>

\* execute (part_002 lines 95-102): the NEW_CHAT_CREATED frame of a new chat,
\* then streamText starts the model call.
NewChatPOST_streamText(t) ==
    /\ turns[t].pc = "streamText"
    /\ turns' = [turns EXCEPT ![t].pc = "streaming", ![t].modelCalls = @ + 1,
                              ![t].events = IF turns[t].isNewChat
                                            THEN Append(@, NewChatCreated(turns[t].chatId))
                                            ELSE @]
    /\ UNCHANGED << now, requests, chats, messages, last, agents, crawl, upserts, step >>

\* onFinish (part_002 lines 124-158): the final write, with the title for a
\* new chat and without it otherwise; an error of upsertChat is caught and
\* logged.
NewChat_onFinish(t) ==
    /\ turns[t].pc = "streaming"
    /\ LET turn == turns[t]
           updatedMessages == appendResponseMessages(turn.messages, ResponseMessages)
           r == upsertChat(chats, messages, now, turn.userId, turn.chatId,
                           IF turn.isNewChat THEN turn.title ELSE None, updatedMessages)
       IN  /\ chats' = r.chats
           /\ messages' = r.messages
           /\ turns' = [turns EXCEPT ![t] = [turn EXCEPT !.pc = "done", !.stream = "finished",
                                                         !.saved = r.error]]
    /\ UNCHANGED << now, requests, last, agents, crawl, upserts, step >>

\* The model call fails or the request is aborted: onFinish is never called.
NewChat_StreamError(t) ==
    /\ turns[t].pc = "streaming"
    /\ turns' = [turns EXCEPT ![t].pc = "done", ![t].stream = "error"]
    /\ UNCHANGED << now, requests, chats, messages, last, agents, crawl, upserts, step >>

InitNewChat ==
    /\ now = 0
    /\ \E n \in SeedCounts : requests = SeedLedger(n)
    /\ \E store \in SeedStores : chats = store.chats /\ messages = store.messages
    /\ last = NoCall
    /\ turns = [t \in TurnIds |-> IdleNewChatTurn]
    /\ agents = << >>
    /\ crawl = << >>
    /\ upserts = << >>
    /\ step = << >>

NextNewChat ==
    \/ \E t \in TurnIds, session \in UserIds \cup {NoSession}, chatId \in ChatIds,
          isNewChat \in BOOLEAN, msgs \in BodyLists :
           NewChatPOST(t, session, chatId, isNewChat, msgs)
    \/ \E t \in TurnIds : NewChatPOST_upsertChat(t)
    \/ \E t \in TurnIds : NewChatPOST_recordUserRequest(t)
    \/ \E t \in TurnIds : NewChatPOST_streamText(t)
    \/ \E t \in TurnIds : NewChat_onFinish(t)
    \/ \E t \in TurnIds : NewChat_StreamError(t)

SpecNewChat == InitNewChat /\ [][NextNewChat]_vars

(***************************************************************************)
(* part_005: one step of streamText with its tool calls. The model issues  *)
(* the calls of a step in an order; their executions run side by side and  *)
(* return in any order, each result joining the step's tool message when   *)
(* it arrives; the next model call answers with text, and onFinish writes  *)
(* the conversation.                                                       *)
(***************************************************************************)
\* The tool calls the model issues in one step: the call at position k has
\* the toolCallId k.
IssuedCalls ==
    UNION { [1 .. n -> ToolNames] : n \in 1 .. MaxCalls }

\* pc: "model", "tools", "onFinish", "done"
\* issued: the tools called, in the order of the calls
\* running: the calls whose execute has not returned
\* results: the results, in the order of their arrival
\* response: response.messages; saved: "", "ok" or the error of the write
NewStep(userId, chatId, msgs) ==
    [pc |-> "model", userId |-> userId, chatId |-> chatId, messages |-> msgs,
     issued |-> << >>, running |-> {}, results |-> << >>, response |-> << >>,
     saved |-> ""]

\* The parts of the assistant message that issues the calls.
RECURSIVE ToolCallParts(_, _)
ToolCallParts(calls, k) ==
    IF k > Len(calls) THEN << >>
    ELSE << ToolCallPart(k, calls[k]) >> \o ToolCallParts(calls, k + 1)

\* The model call of the step: it asks for the tools, whose executions start.
Step_model(calls) ==
    /\ step.pc = "model"
    /\ step' = [step EXCEPT !.pc = "tools", !.issued = calls,
                            !.running = 1 .. Len(calls),
                            !.response = << [role |-> "assistant", content |-> EmptyStr,
                                             parts |-> ToolCallParts(calls, 1)] >>]
    /\ UNCHANGED << now, requests, chats, messages, last, turns, agents, crawl, upserts >>

\* execute of a tool (part_005 lines 125-173) returns: the result of call k
\* is in.
Step_execute(k) ==
    /\ step.pc = "tools"
    /\ k \in step.running
    /\ step' = [step EXCEPT !.running = @ \ {k},
                            !.results = Append(@, ToolResultPart(k, step.issued[k]))]
    /\ UNCHANGED << now, requests, chats, messages, last, turns, agents, crawl, upserts >>

\* All results are in: the tool message of the step is made of them as they
\* arrived, and the next model call answers with text.
Step_answer ==
    /\ step.pc = "tools"
    /\ step.running = {}
    /\ step' = [step EXCEPT !.pc = "onFinish",
                            !.response = @ \o << [role |-> "tool", content |-> EmptyStr,
                                                  parts |-> step.results],
                                                 AssistantMsg >>]
    /\ UNCHANGED << now, requests, chats, messages, last, turns, agents, crawl, upserts >>

\* onFinish (part_005 lines 174-192): appendResponseMessages, then upsertChat
\* of the whole conversation.
Step_onFinish ==
    /\ step.pc = "onFinish"
    /\ LET updatedMessages == appendResponseMessages(step.messages, step.response)
           r == upsertChat(chats, messages, now, step.userId, step.chatId,
                           Some(LastMessageTitle(step.messages)), updatedMessages)
       IN  /\ chats' = r.chats
           /\ messages' = r.messages
           /\ step' = [step EXCEPT !.pc = "done", !.saved = r.error]
    /\ UNCHANGED << now, requests, last, turns, agents, crawl, upserts >>

\* A turn of a user that came without a chat id has written its new chat
\* (part_005 lines 45-53) and calls the model.
InitTools ==
    /\ now = 0
    /\ requests = EmptyBag
    /\ \E userId \in UserIds, chatId \in ChatIds, msgs \in BodyLists :
           LET r == upsertChat(<< >>, [c \in ChatIds |-> << >>], 0, userId, chatId,
                               Some(LastMessageTitle(msgs)), msgs)
           IN  /\ chats = r.chats
               /\ messages = r.messages
               /\ step = NewStep(userId, chatId, msgs)
    /\ last = NoCall
    /\ turns = [t \in TurnIds |-> IdleTurn]
    /\ agents = << >>
    /\ crawl = << >>
    /\ upserts = << >>

NextTools ==
    \/ \E calls \in IssuedCalls : Step_model(calls)
    \/ \E k \in 1 .. MaxCalls : Step_execute(k)
    \/ Step_answer
    \/ Step_onFinish

SpecTools == InitTools /\ [][NextTools]_vars

(***************************************************************************)
(* queries.ts: upsertChat one query at a time. Every await of upsertChat   *)
(* is a step of its own: the select of the chat, the delete of the old     *)
(* rows, the update or the insert of the chat row, the insert of the new   *)
(* rows. No transaction spans them, so that the queries of two calls       *)
(* interleave, and a query that fails ends the call where it stands.       *)
(***************************************************************************)
\* The calls under way.
CallIds == {1, 2}

\* pc: "idle", "delete", "update", "insertChat", "insert", "done"
\* chat: the row the select returned
\* error: "", "ok", or what the call threw
\* before: the tables when the call began
IdleCall ==
    [pc |-> "idle", userId |-> "", chatId |-> "", title |-> None, messageList |-> << >>,
     chat |-> Null, error |-> "",
     before |-> [chats |-> << >>, messages |-> << >>]]

\* The call is over: it returned, or it threw the error.
Returned(call, error) == [call EXCEPT !.pc = "done", !.error = error]

\* After the chat row is written: the insert of the rows, if there are any.
AfterChatRow(call) ==
    IF Len(call.messageList) > 0 THEN [call EXCEPT !.pc = "insert"] ELSE Returned(call, "ok")

\* queries.ts lines 69-87 and 104-108: the select of the chat by its id, the
\* ownership test, and the title test of a chat that does not exist.
upsertChat_select(i, userId, chatId, title, messageList) ==
    /\ upserts[i].pc = "idle"
    /\ \A j \in CallIds : j < i => upserts[j].pc # "idle"
    /\ LET call == [IdleCall EXCEPT !.userId = userId, !.chatId = chatId, !.title = title,
                                    !.messageList = messageList,
                                    !.before = [chats |-> chats, messages |-> messages]]
       IN  upserts' = [upserts EXCEPT ![i] =
               IF chatId \in DOMAIN chats
               THEN IF chats[chatId].userId # userId
                    THEN Returned(call, "PermissionDenied")
                    ELSE [call EXCEPT !.pc = "delete", !.chat = chats[chatId]]
               ELSE IF TitleMissing(title)
                    THEN Returned(call, "TitleRequired")
                    ELSE [call EXCEPT !.pc = "insertChat"]]
    /\ UNCHANGED << now, requests, chats, messages, last, turns, agents, crawl, step >>

\* queries.ts line 90: await db.delete(messages).where(eq(messages.chatId, chatId))
upsertChat_delete(i, db) ==
    /\ upserts[i].pc = "delete"
    /\ IF db = "ok"
       THEN /\ messages' = DeleteMessages(messages, upserts[i].chatId)
            /\ upserts' = [upserts EXCEPT ![i].pc = "update"]
       ELSE /\ messages' = messages
            /\ upserts' = [upserts EXCEPT ![i] = Returned(@, "DbError")]
    /\ UNCHANGED << now, requests, chats, last, turns, agents, crawl, step >>

\* queries.ts lines 93-103: the update of the chat row with updateData, made
\* of the time of the call and of the title of the call or of the row the
\* select returned.
upsertChat_update(i, db) ==
    /\ upserts[i].pc = "update"
    /\ LET call == upserts[i]
           updateData == UpdateData(call.chat, call.title, now)
       IN  IF db = "ok"
           THEN /\ chats' = [chats EXCEPT ![call.chatId].updatedAt = updateData.updatedAt,
                                          ![call.chatId].title = updateData.title]
                /\ upserts' = [upserts EXCEPT ![i] = AfterChatRow(call)]
           ELSE /\ chats' = chats
                /\ upserts' = [upserts EXCEPT ![i] = Returned(call, "DbError")]
    /\ UNCHANGED << now, requests, messages, last, turns, agents, crawl, step >>

\* The insert of the chat row as an insert-or-replace: a row with the id is
\* overwritten by the row of the call.
InsertChatOverwrites(i, db) ==
    /\ upserts[i].pc = "insertChat"
    /\ LET call == upserts[i]
           row == [userId |-> call.userId, title |-> call.title[1], updatedAt |-> now]
       IN  IF db = "ok"
           THEN /\ chats' = IF call.chatId \in DOMAIN chats
                            THEN [chats EXCEPT ![call.chatId] = row]
                            ELSE chats @@ (call.chatId :> row)
                /\ upserts' = [upserts EXCEPT ![i] = AfterChatRow(call)]
           ELSE /\ chats' = chats
                /\ upserts' = [upserts EXCEPT ![i] = Returned(call, "DbError")]
    /\ UNCHANGED << now, requests, messages, last, turns, agents, crawl, step >>

\* queries.ts lines 109-113: the insert of the chat row; the id is the
\* primary key, so that the insert fails when another call has made the chat.
upsertChat_insertChat(i, db) ==
    /\ upserts[i].pc = "insertChat"
    /\ LET call == upserts[i]
       IN  IF db = "ok" /\ call.chatId \notin DOMAIN chats
           THEN /\ chats' = chats @@ (call.chatId :> [userId |-> call.userId,
                                                      title |-> call.title[1],
                                                      updatedAt |-> now])
                /\ upserts' = [upserts EXCEPT ![i] = AfterChatRow(call)]
           ELSE /\ chats' = chats
                /\ upserts' = [upserts EXCEPT ![i] = Returned(call, "DbError")]
    /\ UNCHANGED << now, requests, messages, last, turns, agents, crawl, step >>

\* queries.ts lines 116-126: the insert of the rows of the message list
upsertChat_insert(i, db) ==
    /\ upserts[i].pc = "insert"
    /\ LET call == upserts[i]
       IN  IF db = "ok"
           THEN /\ messages' = InsertMessages(messages, call.chatId, call.messageList)
                /\ upserts' = [upserts EXCEPT ![i] = Returned(call, "ok")]
           ELSE /\ messages' = messages
                /\ upserts' = [upserts EXCEPT ![i] = Returned(call, "DbError")]
    /\ UNCHANGED << now, requests, chats, last, turns, agents, crawl, step >>

\* The store holds no chat, or the chat of a finished turn of alice.
InitUpsert ==
    /\ now = 0
    /\ requests = EmptyBag
    /\ \E store \in SeedStores : chats = store.chats /\ messages = store.messages
    /\ last = NoCall
    /\ turns = [t \in TurnIds |-> IdleTurn]
    /\ agents = << >>
    /\ crawl = << >>
    /\ upserts = [i \in CallIds |-> IdleCall]
    /\ step = << >>

\* Calls begin at any time; every query is answered or fails.
NextUpsert ==
    \/ \E i \in CallIds, userId \in UserIds, chatId \in ChatIds, title \in StoreTitles,
          messageList \in StoreLists :
           upsertChat_select(i, userId, chatId, title, messageList)
    \/ \E i \in CallIds, db \in DbOutcomes : upsertChat_delete(i, db)
    \/ \E i \in CallIds, db \in DbOutcomes : upsertChat_update(i, db)
    \/ \E i \in CallIds, db \in DbOutcomes : upsertChat_insertChat(i, db)
    \/ \E i \in CallIds, db \in DbOutcomes : upsertChat_insert(i, db)
    \/ Tick

SpecUpsert == InitUpsert /\ [][NextUpsert]_vars

(***************************************************************************)
(* The scrapePages tool: bulkCrawlWebsites, whose code is not among the    *)
(* sources and is modelled from its specification (one pipeline per URL:   *)
(* politeness check, fetch with retries, extraction; a worker pool; the    *)
(* robots and content caches), and scrapePages.execute of part_005, which  *)
(* builds the tool's output from the crawl's result.                       *)
(***************************************************************************)
\* Longest list of URLs handed to scrapePages.
MaxUrls == 3

\* Fetch attempts per URL before FetchFailed.
MAX_ATTEMPTS == 3

\* Pipelines at work at the same time.
POOL_SIZE == 2

Urls == {"a/1", "b/1"}

Host == [u \in Urls |-> IF u = "a/1" THEN "a" ELSE "b"]

UrlLists == UNION { [1 .. n -> Urls] : n \in 0 .. MaxUrls }

\* How the world answers for a URL: all well; robots.txt of its host
\* disallows; the first fetch fails and the next succeeds; every fetch
\* fails; the page is fetched and nothing can be extracted from it.
Behaviours == {"ok", "disallowed", "flaky", "down", "unreadable"}

Worlds == [Urls -> Behaviours]

Markdown(url) == [markdown |-> url]

CrawlSuccess(url) == [success |-> TRUE, data |-> Markdown(url)]

CrawlFailure(reason) == [success |-> FALSE, error |-> reason]

NoResult == [success |-> FALSE, error |-> "pending"]

QueuedPipe == [stage |-> "queued", attempts |-> 0, result |-> NoResult]

\* The crawl of urls in a world, before any pipeline has started.
NewCrawl(urls, world) ==
    [urls |-> urls, world |-> world,
     pipes |-> [i \in 1 .. Len(urls) |-> QueuedPipe],
     robotsCache |-> {}, cache |-> {},
     returned |-> FALSE, result |-> << >>, output |-> << >>]

Working == { i \in 1 .. Len(crawl.urls) : crawl.pipes[i].stage \in {"fetch", "extract"} }

Finish(i, result) == [crawl EXCEPT !.pipes[i] = [stage |-> "done", attempts |-> @.attempts,
                                                 result |-> result]]

\* The politeness check with its answer ignored: the page is fetched anyway.
RobotsCheckIgnored(i) ==
    /\ crawl.pipes[i].stage = "queued"
    /\ Cardinality(Working) < POOL_SIZE
    /\ LET url == crawl.urls[i]
           checked == [crawl EXCEPT !.robotsCache = @ \cup {Host[url]}]
       IN  crawl' = IF url \in crawl.cache
                    THEN [Finish(i, CrawlSuccess(url)) EXCEPT
                             !.robotsCache = checked.robotsCache]
                    ELSE [checked EXCEPT !.pipes[i].stage = "fetch"]
    /\ UNCHANGED << now, requests, chats, messages, last, turns, agents, upserts, step >>

\* Step 1 of a pipeline, taken when a worker is free: the politeness check,
\* from the cached policy of the host or from its robots.txt, and the look
\* into the content cache.
RobotsCheck(i) ==
    /\ crawl.pipes[i].stage = "queued"
    /\ Cardinality(Working) < POOL_SIZE
    /\ LET url == crawl.urls[i]
           checked == [crawl EXCEPT !.robotsCache = @ \cup {Host[url]}]
       IN  crawl' = IF crawl.world[url] = "disallowed"
                    THEN [Finish(i, CrawlFailure("RobotsDisallowed")) EXCEPT
                             !.robotsCache = checked.robotsCache]
                    ELSE IF url \in crawl.cache
                    THEN [Finish(i, CrawlSuccess(url)) EXCEPT
                             !.robotsCache = checked.robotsCache]
                    ELSE [checked EXCEPT !.pipes[i].stage = "fetch"]
    /\ UNCHANGED << now, requests, chats, messages, last, turns, agents, upserts, step >>

\* Whether the fetch of a URL succeeds at its n-th attempt.
FetchSucceeds(world, url, n) ==
    \/ world[url] \in {"ok", "unreadable"}
    \/ world[url] = "flaky" /\ n > 1

\* A failed fetch that fails the pipelines of the whole batch.
FetchAbortsBatch(i) ==
    /\ crawl.pipes[i].stage = "fetch"
    /\ LET url == crawl.urls[i]
           n == crawl.pipes[i].attempts + 1
       IN  crawl' = IF FetchSucceeds(crawl.world, url, n)
                    THEN [crawl EXCEPT !.pipes[i].stage = "extract", !.pipes[i].attempts = n]
                    ELSE [crawl EXCEPT !.pipes =
                             [k \in 1 .. Len(crawl.urls) |->
                                 [stage |-> "done", attempts |-> n,
                                  result |-> CrawlFailure("FetchFailed")]]]
    /\ UNCHANGED << now, requests, chats, messages, last, turns, agents, upserts, step >>

\* Step 2: one attempt to fetch the page; a failed attempt is retried until
\* MAX_ATTEMPTS were made.
Fetch(i) ==
    /\ crawl.pipes[i].stage = "fetch"
    /\ LET url == crawl.urls[i]
           n == crawl.pipes[i].attempts + 1
       IN  crawl' = IF FetchSucceeds(crawl.world, url, n)
                    THEN [crawl EXCEPT !.pipes[i].stage = "extract", !.pipes[i].attempts = n]
                    ELSE IF n >= MAX_ATTEMPTS
                    THEN [Finish(i, CrawlFailure("FetchFailed")) EXCEPT !.pipes[i].attempts = n]
                    ELSE [crawl EXCEPT !.pipes[i].attempts = n]
    /\ UNCHANGED << now, requests, chats, messages, last, turns, agents, upserts, step >>

\* Steps 3 and 4: the extraction of the content, cached when it succeeds.
Extract(i) ==
    /\ crawl.pipes[i].stage = "extract"
    /\ LET url == crawl.urls[i]
       IN  crawl' = IF crawl.world[url] = "unreadable"
                    THEN Finish(i, CrawlFailure("ExtractionFailed"))
                    ELSE [Finish(i, CrawlSuccess(url)) EXCEPT !.cache = @ \cup {url}]
    /\ UNCHANGED << now, requests, chats, messages, last, turns, agents, upserts, step >>

\* The result of bulkCrawlWebsites: one entry {url, result} per URL, in the
\* order of the URLs, and success only if every entry succeeded.
CrawlResponse(urls, pipes) ==
    LET results == [i \in 1 .. Len(urls) |-> [url |-> urls[i], result |-> pipes[i].result]]
        failed == { i \in 1 .. Len(urls) : ~pipes[i].result.success }
    IN  IF failed = {}
        THEN [success |-> TRUE, results |-> results]
        ELSE [success |-> FALSE, error |-> "Failed to crawl some websites", results |-> results]

\* The output with the entries of the failed URLs left out.
ScrapeSucceededOnly(result) ==
    LET kept == SelectSeq(result.results, LAMBDA r : r.result.success)
    IN  IF ~result.success
        THEN [error |-> result.error,
              results |-> [i \in 1 .. Len(kept) |->
                              [url |-> kept[i].url, success |-> TRUE, data |-> kept[i].result.data]]]
        ELSE [success |-> TRUE,
              results |-> [i \in 1 .. Len(result.results) |->
                              [url |-> result.results[i].url, data |-> result.results[i].result.data]]]

\* The output with data read from r.result.data for every entry.
ScrapeDataOnly(result) ==
    IF ~result.success
    THEN [error |-> result.error,
          results |-> [i \in 1 .. Len(result.results) |->
                          LET r == result.results[i]
                          IN  [url |-> r.url, success |-> r.result.success,
                               data |-> IF r.result.success THEN r.result.data ELSE None]]]
    ELSE [success |-> TRUE,
          results |-> [i \in 1 .. Len(result.results) |->
                          [url |-> result.results[i].url, data |-> result.results[i].result.data]]]

\* scrapePages.execute (part_005 lines 150-172), given the result of
\* bulkCrawlWebsites.
ScrapePagesOutput(result) ==
    IF ~result.success
    THEN [error |-> result.error,
          results |-> [i \in 1 .. Len(result.results) |->
                          LET r == result.results[i]
                          IN  [url |-> r.url, success |-> r.result.success,
                               data |-> IF r.result.success THEN r.result.data
                                        ELSE r.result.error]]]
    ELSE [success |-> TRUE,
          results |-> [i \in 1 .. Len(result.results) |->
                          [url |-> result.results[i].url, data |-> result.results[i].result.data]]]

\* Every pipeline is over: bulkCrawlWebsites returns and execute returns the
\* tool's output.
CrawlReturns ==
    /\ ~crawl.returned
    /\ \A i \in 1 .. Len(crawl.urls) : crawl.pipes[i].stage = "done"
    /\ LET result == CrawlResponse(crawl.urls, crawl.pipes)
       IN  crawl' = [crawl EXCEPT !.returned = TRUE, !.result = result,
                                  !.output = ScrapePagesOutput(result)]
    /\ UNCHANGED << now, requests, chats, messages, last, turns, agents, upserts, step >>

InitCrawl ==
    /\ now = 0
    /\ requests = EmptyBag
    /\ chats = << >>
    /\ messages = [c \in ChatIds |-> << >>]
    /\ last = NoCall
    /\ turns = [t \in TurnIds |-> IdleTurn]
    /\ agents = << >>
    /\ \E urls \in UrlLists, world \in Worlds : crawl = NewCrawl(urls, world)
    /\ upserts = << >>
    /\ step = << >>

Pipes == 1 .. Len(crawl.urls)

NextCrawl ==
    \/ \E i \in Pipes : RobotsCheck(i)
    \/ \E i \in Pipes : Fetch(i)
    \/ \E i \in Pipes : Extract(i)
    \/ CrawlReturns

SpecCrawl == InitCrawl /\ [][NextCrawl]_vars

\* Every pipeline that can take a step takes one in the end.
SpecCrawlLive == SpecCrawl /\ WF_vars(NextCrawl)

(***************************************************************************)
(* Claims about the chat store, checked under SpecStore.                   *)
(***************************************************************************)
\* The message list as the store keeps it: role and parts of every message.
Persisted(messageList) ==
    [i \in 1 .. Len(messageList) |->
        [role |-> messageList[i].role, parts |-> messageList[i].parts, content |-> EmptyStr]]

\* C1: for every existing chat and every userId different from the chat's
\* creator, upsertChat fails with the permission error and leaves the chat
\* row (owner, title, updatedAt) and all message rows as they were.
C1_NonOwnerDenied ==
    \A userId \in UserIds, chatId \in DOMAIN chats, title \in StoreTitles, messageList \in StoreLists :
        chats[chatId].userId # userId =>
            LET r == upsertChat(chats, messages, now, userId, chatId, title, messageList)
            IN  /\ r.error = "PermissionDenied"
                /\ r.chats = chats
                /\ r.messages = messages

\* A call by a non-owner was made on a chat that holds messages and was last
\* written at an earlier time.
C1_Witness ==
    /\ last.error = "PermissionDenied"
    /\ last.chatId \in DOMAIN chats
    /\ chats[last.chatId].userId # last.userId
    /\ messages[last.chatId] # << >>
    /\ chats[last.chatId].updatedAt < now

\* C9: after every successful upsertChat the rows of the chat are exactly the
\* supplied list: as many rows as messages, the message at array index i
\* stored with order = i, and getChat returns that list.
C9_ReplaceWholeSet ==
    last.error = "ok" =>
        LET rows == messages[last.chatId]
            n == Len(last.messages)
        IN  /\ Len(rows) = n
            /\ \A i \in 0 .. n - 1 :
                   \E k \in 1 .. n :
                       /\ rows[k].order = i
                       /\ rows[k].chatId = last.chatId
                       /\ rows[k].role = last.messages[i + 1].role
                       /\ rows[k].parts = last.messages[i + 1].parts
            /\ getChat(chats, messages, last.chatId, last.userId).messages = Persisted(last.messages)

\* The owner's call stored a list of MaxLen messages on a chat, after time 0.
C9_Witness ==
    /\ last.error = "ok"
    /\ last.repeat = FALSE
    /\ Len(last.messages) = MaxLen
    /\ chats[last.chatId].updatedAt > 0

\* C10: calling upsertChat again with the same userId, chatId and messages
\* succeeds and leaves the rows of the chat as the first call left them, in
\* array order and with no order value twice.
C10_Idempotent ==
    /\ last.error = "ok" =>
          \A title \in StoreTitles :
              LET r == upsertChat(chats, messages, now, last.userId, last.chatId, title, last.messages)
              IN  /\ r.error = "ok"
                  /\ r.messages[last.chatId] = messages[last.chatId]
    /\ last.repeat =>
          LET rows == messages[last.chatId]
          IN  /\ getChat(chats, messages, last.chatId, last.userId).messages = Persisted(last.messages)
              /\ \A i, j \in 1 .. Len(rows) : rows[i].order = rows[j].order => i = j

\* The same two-message call was made twice in sequence.
C10_Witness ==
    /\ last.repeat
    /\ Len(last.messages) = MaxLen

\* An id that no chat has.
NoSuchChat == "c0"

\* C11: for every chat and every user who is not its owner, getChat returns
\* null, which is what it returns to that user for an id that no chat has;
\* and whatever getChat returns to a user is a chat of that user with the
\* rows of that chat.
C11_ExistenceHiding ==
    \A chatId \in ChatIds, userId \in UserIds :
        LET r == getChat(chats, messages, chatId, userId)
        IN  /\ (chatId \in DOMAIN chats /\ chats[chatId].userId # userId) =>
                   /\ r = Null
                   /\ r = getChat(chats, messages, NoSuchChat, userId)
            /\ r # Null =>
                   /\ chatId \in DOMAIN chats
                   /\ r.id = chatId
                   /\ r.userId = userId
                   /\ chats[chatId].userId = userId
                   /\ Len(r.messages) = Len(messages[chatId])
                   /\ \A i \in 1 .. Len(r.messages) :
                          \E k \in 1 .. Len(messages[chatId]) :
                              /\ messages[chatId][k].chatId = chatId
                              /\ messages[chatId][k].role = r.messages[i].role
                              /\ messages[chatId][k].parts = r.messages[i].parts

\* Each user owns a chat that holds messages: each is the other's non-owner.
C11_Witness ==
    /\ DOMAIN chats = ChatIds
    /\ \A u \in UserIds : \E chatId \in ChatIds :
           chats[chatId].userId = u /\ Len(messages[chatId]) = MaxLen

\* C21: for every id that no chat has, upsertChat without a title fails with
\* the title-required error and leaves both tables as they were: no chat
\* row and no message row is created; and after a call that failed with
\* that error the id still has no chat and no message rows.
C21_TitleRequired ==
    /\ \A userId \in UserIds, chatId \in ChatIds \ DOMAIN chats, messageList \in StoreLists :
           LET r == upsertChat(chats, messages, now, userId, chatId, None, messageList)
           IN  /\ r.error = "TitleRequired"
               /\ r.chats = chats
               /\ r.messages = messages
    /\ last.error = "TitleRequired" =>
           /\ last.chatId \notin DOMAIN chats
           /\ messages[last.chatId] = << >>

\* A call without a usable title was made on an id that no chat has, while
\* the other id has a chat that holds messages.
C21_Witness ==
    /\ last.error = "TitleRequired"
    /\ last.chatId \notin DOMAIN chats
    /\ \E c \in DOMAIN chats : Len(messages[c]) = MaxLen

\* C22: for every existing chat, the owner's upsertChat succeeds, sets the
\* title to the supplied title when one is supplied and leaves it as it was
\* when none is, and in both cases sets updatedAt to the time of the call,
\* never earlier than the old one; owner and the other chats are untouched.
C22_TitleAndTimestamp ==
    /\ \A chatId \in DOMAIN chats, title \in StoreTitles, messageList \in StoreLists :
           LET r == upsertChat(chats, messages, now, chats[chatId].userId, chatId, title, messageList)
           IN  /\ r.error = "ok"
               /\ DOMAIN r.chats = DOMAIN chats
               /\ r.chats[chatId].title = (IF title = None THEN chats[chatId].title ELSE title[1])
               /\ r.chats[chatId].updatedAt = now
               /\ r.chats[chatId].updatedAt >= chats[chatId].updatedAt
               /\ r.chats[chatId].userId = chats[chatId].userId
               /\ \A c \in DOMAIN chats \ {chatId} : r.chats[c] = chats[c]
    /\ \A c \in DOMAIN chats : chats[c].updatedAt <= now

\* The owner wrote an existing chat again after time 0 and replaced its
\* title: a chat is never created with the empty title.
C22_Witness ==
    /\ last.error = "ok"
    /\ chats[last.chatId].title = EmptyStr
    /\ chats[last.chatId].updatedAt = now
    /\ now > 0

\* C23: every list getChats may return to a user holds exactly the chats of
\* that user, each once and with its title and updatedAt, ordered by
\* updatedAt descending; after a successful upsertChat the chat written last
\* has the greatest updatedAt of its owner's chats, so that the list starts
\* with it, or with a chat written at the same time.
C23_ListNewestFirst ==
    /\ \A userId \in UserIds :
           /\ getChats(chats, userId) # {}
           /\ \A L \in getChats(chats, userId) :
                  /\ { L[i].id : i \in DOMAIN L } = { c \in DOMAIN chats : chats[c].userId = userId }
                  /\ \A i, j \in DOMAIN L : L[i].id = L[j].id => i = j
                  /\ \A i \in DOMAIN L :
                         /\ L[i].title = chats[L[i].id].title
                         /\ L[i].updatedAt = chats[L[i].id].updatedAt
                  /\ \A i \in 1 .. Len(L) - 1 : L[i].updatedAt >= L[i + 1].updatedAt
    /\ last.error = "ok" =>
           \A L \in getChats(chats, last.userId) :
               /\ L[1].updatedAt = chats[last.chatId].updatedAt
               /\ (\A c \in DOMAIN chats :
                       (c # last.chatId /\ chats[c].userId = last.userId) =>
                           chats[c].updatedAt # chats[last.chatId].updatedAt)
                      => L[1].id = last.chatId

\* A user owns both chats and wrote the older one again at a later time: it
\* moved to the head of the list.
C23_Witness ==
    /\ last.error = "ok"
    /\ DOMAIN chats = ChatIds
    /\ \A c \in ChatIds : chats[c].userId = last.userId
    /\ \E c \in ChatIds : chats[c].updatedAt < chats[last.chatId].updatedAt
    /\ \A L \in getChats(chats, last.userId) : L[1].id = last.chatId

\* C28: when two calls of upsertChat by the owner on the same chat, which
\* existed when both began, have returned with success, the rows of the chat
\* are the list of one of the two calls: getChat returns that list, with as
\* many rows as it has messages and the order values 0 .. n-1, each once.
C28_NoMixedWrites ==
    \A i, j \in CallIds :
        ( /\ i # j
          /\ upserts[i].pc = "done" /\ upserts[i].error = "ok"
          /\ upserts[j].pc = "done" /\ upserts[j].error = "ok"
          /\ upserts[i].chatId = upserts[j].chatId
          /\ upserts[i].chat # Null /\ upserts[j].chat # Null )
        => \E k \in {i, j} :
               LET chatId == upserts[k].chatId
                   rows == messages[chatId]
                   n == Len(upserts[k].messageList)
               IN  /\ getChat(chats, messages, chatId, upserts[k].userId).messages
                          = Persisted(upserts[k].messageList)
                   /\ Len(rows) = n
                   /\ \A o \in 0 .. n - 1 : \E r \in 1 .. n : rows[r].order = o

\* C29: a call of upsertChat that a failing query ended, no other call
\* having begun, leaves the chats and the messages as they were when it
\* began.
C29_AtomicOnFailure ==
    \A i \in CallIds :
        ( /\ upserts[i].pc = "done"
          /\ upserts[i].error = "DbError"
          /\ \A j \in CallIds \ {i} : upserts[j].pc = "idle" )
        => /\ chats = upserts[i].before.chats
           /\ messages = upserts[i].before.messages

\* C35: no step of any call of upsertChat, failing queries and interleaved
\* calls of other users included, removes a chat or changes its owner; a
\* chat that appears is the row of a call that found no chat with the id and
\* has the userId of that call; and the insert of a chat row whose id a chat
\* already has writes nothing and fails.
C35_OwnerNeverChanges ==
    [][/\ \A c \in DOMAIN chats :
              /\ c \in DOMAIN chats'
              /\ chats'[c].userId = chats[c].userId
       /\ \A c \in DOMAIN chats' \ DOMAIN chats :
              \E i \in CallIds :
                  /\ upserts[i].pc = "insertChat"
                  /\ upserts'[i].pc # "insertChat"
                  /\ upserts[i].chatId = c
                  /\ upserts[i].chat = Null
                  /\ chats'[c].userId = upserts[i].userId
       /\ \A i \in CallIds :
              ( /\ upserts[i].pc = "insertChat"
                /\ upserts'[i].pc # "insertChat"
                /\ upserts[i].chatId \in DOMAIN chats )
              => /\ chats' = chats
                 /\ upserts'[i].error = "DbError"]_vars

\* Two users called upsertChat for the same id when no chat had it; the
\* chat is the one of the call that succeeded, and the other call failed.
C35_Witness ==
    \E i, j \in CallIds :
        /\ upserts[i].userId # upserts[j].userId
        /\ upserts[i].chatId = upserts[j].chatId
        /\ upserts[i].chatId \notin DOMAIN upserts[i].before.chats
        /\ upserts[j].chatId \notin DOMAIN upserts[j].before.chats
        /\ upserts[i].pc = "done" /\ upserts[i].error = "ok"
        /\ upserts[j].pc = "done" /\ upserts[j].error = "DbError"
        /\ upserts[j].chat = Null
        /\ chats[upserts[i].chatId].userId = upserts[i].userId
        /\ Len(messages[upserts[i].chatId]) = Len(upserts[i].messageList)

(***************************************************************************)
(* Claims about the quota gate and the turn endpoint, checked under Spec   *)
(* and SpecFaults.                                                         *)
(***************************************************************************)
\* The first tick of the local day of the clock.
DayStart == CHOOSE m \in Times : m % DayLen = 0 /\ m <= now /\ now < m + DayLen

\* The rows of the ledger of a user created at or after a time.
RECURSIVE RecordsSince(_, _)
RecordsSince(userId, from) ==
    IF from > MaxTime THEN 0
    ELSE CopiesIn([userId |-> userId, createdAt |-> from], requests) + RecordsSince(userId, from + 1)

RecordsToday(userId) == RecordsSince(userId, DayStart)

NonAdmins == { u \in UserIds : ~users[u].isAdmin }

Admins == { u \in UserIds : users[u].isAdmin }

RECURSIVE RecordedBy(_)
RecordedBy(S) ==
    IF S = {} THEN 0
    ELSE LET t == CHOOSE x \in S : TRUE IN turns[t].recorded + RecordedBy(S \ {t})

\* C2: for a turn on an existing chat of the caller whose stream failed or
\* was aborted, so that onFinish never ran, getChat returns the message list
\* it returned when the turn began (no other request being served).
C2_HistorySurvivesBrokenStream ==
    \A t \in TurnIds :
        ( /\ turns[t].pc = "done"
          /\ turns[t].stream = "error"
          /\ turns[t].prior.found
          /\ \A s \in TurnIds \ {t} : turns[s].pc = "idle" )
        => getChat(chats, messages, turns[t].chatId, turns[t].userId).messages
              = turns[t].prior.messages

\* C3: a turn calls recordUserRequest at most once and the model at most
\* once; a model call has started only in a turn that checkRateLimit allowed
\* and that has appended its row to the ledger; a turn that has recorded was
\* allowed; and the ledger holds the rows it started with and one row for
\* every recording turn.
C3_RecordOnceBeforeModel ==
    /\ \A t \in TurnIds :
           /\ turns[t].recorded <= 1
           /\ turns[t].modelCalls <= 1
           /\ turns[t].modelCalls = 1 => turns[t].recorded = 1
           /\ turns[t].recorded = 1 => turns[t].rateLimit.allowed
           /\ turns[t].pc = "streaming" => turns[t].modelCalls = 1
           /\ turns[t].stream # "" => turns[t].modelCalls = 1
    /\ \E n \in SeedCounts :
           BagCardinality(requests) = BagCardinality(SeedLedger(n)) + RecordedBy(TurnIds)

\* A non-admin's model call is running, its row in the ledger.
C3_Witness ==
    \E t \in TurnIds :
        /\ turns[t].pc = "streaming"
        /\ turns[t].userId \in NonAdmins
        /\ turns[t].recorded = 1
        /\ RecordsToday(turns[t].userId) >= 1

\* C4: for a non-admin, a user with DAILY_REQUEST_LIMIT or more rows of today
\* gets allowed = FALSE and remaining = 0; within one day no step raises
\* remaining; and the step over midnight restores the whole quota, the rows
\* of the days before being no longer counted.
C4_QuotaWindow ==
    /\ [](\A u \in NonAdmins :
            RecordsToday(u) >= DAILY_REQUEST_LIMIT =>
                checkRateLimit(requests, now, u)
                    = [allowed |-> FALSE, remaining |-> 0, limit |-> DAILY_REQUEST_LIMIT])
    /\ [][\A u \in NonAdmins :
            /\ (now' \div DayLen = now \div DayLen) =>
                   checkRateLimit(requests', now', u).remaining
                       <= checkRateLimit(requests, now, u).remaining
            /\ (now' \div DayLen # now \div DayLen) =>
                   checkRateLimit(requests', now', u)
                       = [allowed |-> TRUE, remaining |-> DAILY_REQUEST_LIMIT,
                          limit |-> DAILY_REQUEST_LIMIT]]_vars

\* A non-admin used up the quota of the first day and, after midnight, was
\* let in again and recorded.
C4_Witness ==
    \E u \in NonAdmins :
        /\ now >= DayLen
        /\ RecordsSince(u, 0) - RecordsToday(u) >= DAILY_REQUEST_LIMIT
        /\ RecordsToday(u) = 1
        /\ checkRateLimit(requests, now, u).remaining = DAILY_REQUEST_LIMIT - 1

\* C5: for a non-admin with c rows of today, checkRateLimit returns
\* remaining = max(0, 50 - c), allowed = (c < 50) and limit = 50.
C5_RemainingOfCount ==
    \A u \in NonAdmins :
        LET c == RecordsToday(u)
        IN  checkRateLimit(requests, now, u)
                = [allowed |-> c < DAILY_REQUEST_LIMIT,
                   remaining |-> IF c >= DAILY_REQUEST_LIMIT THEN 0 ELSE DAILY_REQUEST_LIMIT - c,
                   limit |-> DAILY_REQUEST_LIMIT]

\* Two requests that both passed the gate have taken a non-admin past the
\* limit.
C5_Witness ==
    \E u \in NonAdmins :
        /\ RecordsToday(u) > DAILY_REQUEST_LIMIT
        /\ \A t \in TurnIds : turns[t].userId = u /\ turns[t].recorded = 1

\* C6: for an admin, checkRateLimit returns allowed = TRUE, remaining = -1
\* and limit = -1 whatever the ledger holds, and no turn of an admin is
\* answered with the quota denial.
C6_AdminUnlimited ==
    /\ \A u \in Admins :
           checkRateLimit(requests, now, u) = [allowed |-> TRUE, remaining |-> -1, limit |-> -1]
    /\ \A t \in TurnIds :
           (turns[t].userId \in Admins /\ turns[t].pc # "idle") =>
               /\ turns[t].rateLimit = [allowed |-> TRUE, remaining |-> -1, limit |-> -1]
               /\ turns[t].status # 429

\* An admin with more rows of today than the limit has a model call running.
C6_Witness ==
    \E t \in TurnIds :
        /\ turns[t].userId \in Admins
        /\ turns[t].pc = "streaming"
        /\ RecordsToday(turns[t].userId) > DAILY_REQUEST_LIMIT

\* C7: the step that answers a request with the quota denial changes no
\* table, and the answer carries remaining and limit as checkRateLimit gives
\* them; a denied turn is over, with no row recorded, no chat id taken, no
\* model call and no write.
C7_DenialHasNoEffect ==
    /\ [](\A t \in TurnIds :
            turns[t].status = 429 =>
                /\ turns[t].pc = "done"
                /\ turns[t].recorded = 0
                /\ turns[t].modelCalls = 0
                /\ turns[t].finalChatId = NoChat
                /\ turns[t].stream = ""
                /\ turns[t].saved = ""
                /\ turns[t].payload.limit = DAILY_REQUEST_LIMIT
                /\ turns[t].payload.remaining = 0)
    /\ [][\A t \in TurnIds :
            (turns[t].status # 429 /\ turns'[t].status = 429) =>
                /\ requests' = requests
                /\ chats' = chats
                /\ messages' = messages
                /\ turns'[t].payload.remaining = checkRateLimit(requests, now, turns'[t].userId).remaining
                /\ turns'[t].payload.limit = checkRateLimit(requests, now, turns'[t].userId).limit]_vars

\* A request on an existing chat was denied.
C7_Witness ==
    \E t \in TurnIds :
        /\ turns[t].status = 429
        /\ turns[t].chatId \in DOMAIN chats
        /\ RecordsToday(turns[t].userId) >= DAILY_REQUEST_LIMIT

\* C8: a non-admin's turn whose count query failed or returned no row makes
\* no model call and ends with a denial.
C8_GateFailsClosed ==
    \A t \in TurnIds :
        turns[t].countQuery \in {"empty", "throws"} =>
            /\ turns[t].modelCalls = 0
            /\ turns[t].pc = "done" => turns[t].status \in {429, 500}

\* C12: the step in which onFinish of a turn writes the conversation with
\* success leaves the store so that getChat, asked by the owner for the chat
\* of the turn, returns the message list of the request body followed by the
\* messages of the model, the message at position i being the row with
\* order = i and the last one being the assistant's answer.
C12_FinalGetChat ==
    [][\A t \in TurnIds :
         (turns[t].pc = "streaming" /\ turns'[t].pc = "done" /\ turns'[t].saved = "ok") =>
             LET chatId == turns[t].finalChatId
                 expected == turns[t].messages \o ResponseMessages
                 n == Len(expected)
                 r == getChat(chats', messages', chatId, turns[t].userId)
             IN  /\ r # Null
                 /\ r.messages = Persisted(expected)
                 /\ Len(messages'[chatId]) = n
                 /\ \A i \in 0 .. n - 1 :
                        \E k \in 1 .. n :
                            /\ messages'[chatId][k].order = i
                            /\ messages'[chatId][k].role = expected[i + 1].role
                            /\ messages'[chatId][k].parts = expected[i + 1].parts
                 /\ r.messages[n].role = "assistant"
                 /\ r.messages[n].parts = << TextPart(Answer) >>]_vars

\* A follow-up turn on a chat that held messages has finished and saved.
C12_Witness ==
    \E t \in TurnIds :
        /\ turns[t].pc = "done"
        /\ turns[t].saved = "ok"
        /\ turns[t].prior # Null
        /\ Len(turns[t].messages) > 1
        /\ Len(messages[turns[t].finalChatId]) = Len(turns[t].messages) + 1

\* C13: a turn that has recorded its request, reached streamText or called
\* the model has its placeholder written: the chat of the turn exists and is
\* the caller's; and a turn whose placeholder write failed is over with no
\* request recorded, no model call, nothing streamed and no final write.
C13_PlaceholderBeforeModel ==
    \A t \in TurnIds :
        /\ (turns[t].recorded > 0 \/ turns[t].modelCalls > 0
                \/ turns[t].pc \in {"execute", "streamText", "streaming"}) =>
               /\ turns[t].finalChatId \in DOMAIN chats
               /\ chats[turns[t].finalChatId].userId = turns[t].userId
               /\ turns[t].status = 200
        /\ turns[t].status = 500 =>
               /\ turns[t].pc = "done"
               /\ turns[t].recorded = 0
               /\ turns[t].modelCalls = 0
               /\ turns[t].stream = ""
               /\ turns[t].saved = ""

\* One turn that started a new chat has its model call running, and the
\* placeholder of another, for a chat that was never created, has failed.
C13_Witness ==
    \E t, s \in TurnIds :
        /\ turns[t].chatId = NoChat
        /\ turns[t].pc = "streaming"
        /\ Len(messages[turns[t].finalChatId]) = 0
        /\ turns[s].status = 500
        /\ turns[s].finalChatId \notin DOMAIN chats

\* C24: a request that arrives without a session is answered with status
\* 401 in the step in which it arrives, and that step changes nothing else:
\* the ledger, the chats and the messages stay as they were and the request
\* keeps no body, no chat id, no answer of the gate, no recorded row and no
\* model call; a request answered with 401 takes no further step, and only
\* requests without a session are answered with 401.
C24_UnauthorizedTouchesNothing ==
    [][\A t \in TurnIds :
         /\ (turns[t].pc = "idle" /\ turns'[t].pc # "idle" /\ turns'[t].userId = NoSession) =>
                /\ turns'[t] = [IdleTurn EXCEPT !.pc = "done", !.status = 401]
                /\ turns'[t].messages = << >>
                /\ turns'[t].rateLimit = NoRateLimit
                /\ turns'[t].recorded = 0
                /\ turns'[t].modelCalls = 0
                /\ requests' = requests
                /\ chats' = chats
                /\ messages' = messages
         /\ turns[t].status = 401 =>
                /\ turns'[t] = turns[t]
                /\ turns[t].userId = NoSession
                /\ turns[t].pc = "done"]_vars

\* A request without a session was answered while the request of a user is
\* streaming on a chat of the store, its row in the ledger.
C24_Witness ==
    \E t, s \in TurnIds :
        /\ turns[t].status = 401
        /\ turns[s].pc = "streaming"
        /\ turns[s].recorded = 1
        /\ turns[s].finalChatId \in DOMAIN chats

\* The positions of the user messages of a list.
UserPositions(msgs) == { i \in 1 .. Len(msgs) : msgs[i].role = "user" }

\* C25: a turn that came without a chat id and has derived its title holds a
\* title that is never empty and never longer than 100 characters: the
\* content of the first user message cut to 100 characters when that
\* content is not empty, and "New Chat" when it is empty or when the list
\* has no user message.
C25_DerivedTitle ==
    \A t \in TurnIds :
        (turns[t].chatId = NoChat /\ turns[t].finalChatId # NoChat) =>
            LET msgs == turns[t].messages
                first == CHOOSE i \in UserPositions(msgs) : \A j \in UserPositions(msgs) : i <= j
            IN  /\ turns[t].title # EmptyStr
                /\ Len(turns[t].title) <= TITLE_SLICE
                /\ turns[t].title =
                       IF UserPositions(msgs) = {} \/ msgs[first].content = EmptyStr
                       THEN NEW_CHAT
                       ELSE Slice(msgs[first].content, TITLE_SLICE)

\* C27: however the requests of a non-admin interleave, the ledger never
\* holds more than DAILY_REQUEST_LIMIT rows of that user for the current day.
C27_DailyLimitHolds ==
    \A u \in NonAdmins : RecordsToday(u) <= DAILY_REQUEST_LIMIT

\* C30: a turn whose request named a chat that another user owned when it
\* arrived is over at once and has cost nothing: no row recorded, no model
\* call, nothing streamed, no final write tried; and the chat still has its
\* owner.
C30_ForeignChatTerminal ==
    \A t \in TurnIds :
        (turns[t].pc # "idle" /\ turns[t].named \notin {"", turns[t].userId}) =>
            /\ turns[t].pc = "done"
            /\ turns[t].status # 200
            /\ turns[t].recorded = 0
            /\ turns[t].modelCalls = 0
            /\ turns[t].stream = ""
            /\ turns[t].saved = ""
            /\ chats[turns[t].chatId].userId = turns[t].named

\* C31: a turn that called the model and is over has run onFinish, the step
\* of the final write, once: its stream ended as a finished one and the
\* final upsertChat was called, whether the model call succeeded, failed or
\* was aborted.
C31_FinalizeOncePerTurn ==
    \A t \in TurnIds :
        (turns[t].pc = "done" /\ turns[t].modelCalls > 0) =>
            /\ turns[t].stream = "finished"
            /\ turns[t].saved # ""

\* C32: a turn whose model call failed or was aborted has recorded its
\* request, and the row is still in the ledger; for a non-admin, as long as
\* the day of the turn lasts, the remaining quota is at least one less than
\* the positive remaining quota checkRateLimit gave the turn, and exactly one
\* less when no other request of the user was recorded.
C32_FailedTurnConsumesQuota ==
    \A t \in TurnIds :
        (turns[t].pc = "done" /\ turns[t].stream = "error") =>
            LET u == turns[t].userId
                others == { s \in TurnIds \ {t} : turns[s].userId = u /\ turns[s].recorded > 0 }
                after == checkRateLimit(requests, now, u).remaining
            IN  /\ turns[t].recorded = 1
                /\ \E at \in 0 .. now :
                       CopiesIn([userId |-> u, createdAt |-> at], requests) >= 1
                /\ (u \in NonAdmins /\ now < DayLen) =>
                       /\ turns[t].rateLimit.remaining > 0
                       /\ after <= turns[t].rateLimit.remaining - 1
                       /\ others = {} => after = turns[t].rateLimit.remaining - 1

\* The model call of a non-admin who had one request left has failed, and
\* the gate now refuses the user.
C32_Witness ==
    \E t \in TurnIds :
        /\ turns[t].pc = "done"
        /\ turns[t].stream = "error"
        /\ turns[t].userId \in NonAdmins
        /\ turns[t].rateLimit.remaining = 1
        /\ now < DayLen
        /\ ~checkRateLimit(requests, now, turns[t].userId).allowed
        /\ \A s \in TurnIds \ {t} : turns[s].recorded = 0

\* C33: a turn that came without a chat id, has written its placeholder and
\* has not finished its stream (the model call is still to come, is running,
\* has failed or was aborted), no other request having used the chat id:
\* getChat for the id and the caller returns a chat, with the title and the
\* messages of the placeholder write: no message in route.ts, the messages
\* of the request in part_005.
C33_PlaceholderNotRolledBack ==
    /\ \A t \in DOMAIN turns :
           ( /\ turns[t].chatId = NoChat
             /\ turns[t].status = 200
             /\ turns[t].stream # "finished"
             /\ \A s \in DOMAIN turns \ {t} : turns[s].finalChatId # turns[t].finalChatId )
           => LET chat == getChat(chats, messages, turns[t].finalChatId, turns[t].userId)
              IN  /\ chat.found
                  /\ chat.title = turns[t].title
                  /\ chat.messages = << >>
    /\ \A a \in DOMAIN agents :
           ( /\ agents[a].chatId = NoChat
             /\ agents[a].status = 200
             /\ agents[a].stream # "finished" )
           => LET chat == getChat(chats, messages, agents[a].currentChatId, agents[a].userId)
              IN  /\ chat.found
                  /\ chat.title = LastMessageTitle(agents[a].messages)
                  /\ chat.messages = Persisted(agents[a].messages)

\* The model call of a turn that started a new chat has failed; the chat is
\* there, empty, under the title of the turn.
C33_Witness ==
    \E t \in TurnIds :
        /\ turns[t].chatId = NoChat
        /\ turns[t].pc = "done"
        /\ turns[t].stream = "error"
        /\ turns[t].modelCalls = 1
        /\ turns[t].finalChatId \in DOMAIN chats
        /\ chats[turns[t].finalChatId].title = Question
        /\ Len(messages[turns[t].finalChatId]) = 0

\* C36: no step of a turn changes the title of a chat that exists: a chat
\* keeps the title it was created with through the placeholder write and
\* the final write of every later turn on it.
C36_TitleSetAtCreation ==
    [][\A c \in DOMAIN chats :
           /\ c \in DOMAIN chats'
           /\ chats'[c].title = chats[c].title]_vars

(***************************************************************************)
(* Claims about the turn endpoint with tools, checked under SpecAgent and  *)
(* SpecAgentLive.                                                          *)
(***************************************************************************)
\* C14: a turn whose final upsertChat failed has the failure logged, and its
\* stream ended as a finished one, with no error for the client.
C14_FinalWriteFailureLogged ==
    \A a \in AgentIds :
        agents[a].saved \notin {"", "ok"} =>
            /\ agents[a].logged
            /\ agents[a].stream = "finished"

\* The positions of the NEW_CHAT_CREATED frames in the frames written.
NewChatFrames(events) == { i \in 1 .. Len(events) : events[i].type = "NEW_CHAT_CREATED" }

\* C15: a turn that came without a chat id and has called the model has
\* written one NEW_CHAT_CREATED frame, carrying the chat id of the turn, and
\* a turn that came with a chat id has written none.
C15_NewChatCreatedOnce ==
    \A t \in TurnIds :
        /\ (turns[t].chatId = NoChat /\ turns[t].modelCalls > 0) =>
               /\ Cardinality(NewChatFrames(turns[t].events)) = 1
               /\ \A i \in NewChatFrames(turns[t].events) :
                      turns[t].events[i].chatId = turns[t].finalChatId
        /\ (turns[t].chatId # NoChat) => NewChatFrames(turns[t].events) = {}

\* C16: the loop makes at most MAX_STEPS model calls; a loop in which every
\* model call asked for tools ends after exactly MAX_STEPS of them, not
\* aborted and with no error, handing onFinish a non-empty response; and
\* every loop that starts comes to its end.
C16_StepBound ==
    /\ [](\A a \in AgentIds :
            /\ agents[a].steps <= MAX_STEPS
            /\ agents[a].pc = "model" => agents[a].steps < MAX_STEPS
            /\ agents[a].finishReason = "tool-calls" =>
                   /\ agents[a].steps = MAX_STEPS
                   /\ agents[a].pc \in {"onFinish", "done"}
                   /\ ~agents[a].aborted
                   /\ Len(agents[a].response) = 2 * MAX_STEPS
            /\ agents[a].pc = "onFinish" =>
                   /\ agents[a].finishReason \in {"stop", "tool-calls"}
                   /\ agents[a].stream = ""
                   /\ Len(agents[a].response) > 0)
    /\ \A a \in AgentIds : (agents[a].pc = "model") ~> (agents[a].pc = "done")

\* A turn whose every model call asked for tools is over, its stream
\* finished and its conversation saved: the request's messages and one
\* assistant message that holds the tool calls of the MAX_STEPS steps.
C16_Witness ==
    \E a \in AgentIds :
        /\ agents[a].pc = "done"
        /\ agents[a].finishReason = "tool-calls"
        /\ agents[a].steps = MAX_STEPS
        /\ agents[a].stream = "finished"
        /\ agents[a].saved = "ok"
        /\ LET rows == messages[agents[a].currentChatId]
               n == Len(agents[a].messages) + 1
           IN  /\ Len(rows) = n
               /\ rows[n].role = "assistant"
               /\ Len(rows[n].parts) = MAX_STEPS
               /\ \A k \in 1 .. MAX_STEPS :
                      /\ rows[n].parts[k].toolCallId = k
                      /\ rows[n].parts[k].state = "result"

\* C17: once the request is aborted, no tool execution of the turn is still
\* running: those under way were cancelled.
C17_AbortReachesTools ==
    \A a \in AgentIds :
        agents[a].aborted => \A n \in ToolNames : agents[a].calls[n] # "running"

\* C26: whatever the order in which the tool calls of a step returned, the
\* conversation that onFinish has written ends with the assistant message
\* whose tool invocations stand in the order in which the model issued the
\* calls, each with the result of its own call, the text of the answer after
\* them; and the row of the message at array position i has order = i.
C26_IssueOrder ==
    (step.pc = "done" /\ step.saved = "ok") =>
        LET r == getChat(chats, messages, step.chatId, step.userId).messages
            rows == messages[step.chatId]
            n == Len(step.messages) + 1
            calls == Len(step.issued)
        IN  /\ Len(r) = n
            /\ Len(rows) = n
            /\ \A i \in 1 .. n :
                   /\ rows[i].order = i - 1
                   /\ rows[i].parts = r[i].parts
                   /\ rows[i].role = r[i].role
            /\ \A i \in 1 .. n - 1 : r[i].parts = step.messages[i].parts
            /\ r[n].role = "assistant"
            /\ Len(r[n].parts) = calls + 1
            /\ \A k \in 1 .. calls :
                   r[n].parts[k] = [type |-> "tool-invocation", toolCallId |-> k,
                                    toolName |-> step.issued[k], state |-> "result",
                                    result |-> Some(ResultOf(k))]
            /\ r[n].parts[calls + 1] = TextPart(Answer)

\* A step of MaxCalls calls whose results came in against the order of the
\* calls, the last call first, was written.
C26_Witness ==
    /\ step.pc = "done"
    /\ step.saved = "ok"
    /\ Len(step.issued) = MaxCalls
    /\ \A k \in 1 .. MaxCalls : step.results[k].toolCallId = MaxCalls + 1 - k
    /\ \E j, k \in 1 .. MaxCalls : step.issued[j] # step.issued[k]

\* C37: at the endpoint with tools, a request of a user with an empty
\* message list is answered with 400; a request with messages that names a
\* chat that does not exist, or a chat of another user, is answered with
\* 404, and the answer is the same in both cases: it holds the status and
\* nothing else. The step that answers writes no chat and no message, and
\* the request takes no further step: no frame is streamed, no model call
\* made, no final write tried.
C37_NotFoundAlike ==
    [][\A a \in AgentIds :
         /\ ( /\ agents[a].pc = "idle"
              /\ agents'[a].pc # "idle"
              /\ agents'[a].userId # NoSession )
            => LET req == agents'[a]
                   rejected(status) ==
                       /\ req = [IdleAgent EXCEPT !.userId = req.userId, !.chatId = req.chatId,
                                                  !.messages = req.messages,
                                                  !.pc = "done", !.status = status]
                       /\ req.steps = 0
                       /\ req.events = << >>
                       /\ req.saved = ""
                       /\ chats' = chats
                       /\ messages' = messages
               IN  /\ req.messages = << >> => rejected(400)
                   /\ ( /\ req.messages # << >>
                        /\ req.chatId # NoChat
                        /\ \/ req.chatId \notin DOMAIN chats
                           \/ chats[req.chatId].userId # req.userId )
                      => rejected(404)
         /\ agents[a].status \in {400, 404} => agents'[a] = agents[a]]_vars

\* A request that named the chat of another user was answered with 404, and
\* the chat holds its messages.
C37_Witness ==
    \E a \in AgentIds :
        /\ agents[a].status = 404
        /\ agents[a].messages # << >>
        /\ agents[a].chatId \in DOMAIN chats
        /\ chats[agents[a].chatId].userId # agents[a].userId
        /\ Len(messages[agents[a].chatId]) = 2

(***************************************************************************)
(* Claims about the scrapePages tool, checked under SpecCrawl and          *)
(* SpecCrawlLive.                                                          *)
(***************************************************************************)
\* What the crawl of one URL alone ends with in a world.
CrawlAlone(world, url) ==
    CASE world[url] = "disallowed" -> [success |-> FALSE, error |-> "RobotsDisallowed"]
      [] world[url] = "down"       -> [success |-> FALSE, error |-> "FetchFailed"]
      [] world[url] = "unreadable" -> [success |-> FALSE, error |-> "ExtractionFailed"]
      [] OTHER                     -> [success |-> TRUE, data |-> [markdown |-> url]]

Succeeding(world) == { u \in Urls : CrawlAlone(world, u).success }

\* C18: when the crawl of N URLs has returned, its result holds N entries
\* and so does the output of scrapePages, the i-th entry of each being the
\* entry of the i-th URL.
C18_OneEntryPerUrl ==
    crawl.returned =>
        LET n == Len(crawl.urls)
        IN  /\ Len(crawl.result.results) = n
            /\ Len(crawl.output.results) = n
            /\ \A i \in 1 .. n :
                   /\ crawl.result.results[i].url = crawl.urls[i]
                   /\ crawl.output.results[i].url = crawl.urls[i]

\* A crawl of MaxUrls URLs has returned, with URLs that failed and URLs
\* that succeeded.
C18_Witness ==
    /\ crawl.returned
    /\ Len(crawl.urls) = MaxUrls
    /\ \E i, j \in 1 .. MaxUrls :
           /\ crawl.result.results[i].result.success
           /\ ~crawl.result.results[j].result.success

\* C19: the success of a returned crawl is TRUE exactly if every URL of the
\* batch succeeds in the world; if it is FALSE, the output of scrapePages
\* carries for every URL its own success flag, with the extracted data of a
\* URL that succeeded and the error of one that failed; if it is TRUE, the
\* output carries success and the data of every URL.
C19_SuccessIffAll ==
    crawl.returned =>
        LET n == Len(crawl.urls)
            out == crawl.output
        IN  /\ crawl.result.success = (\A i \in 1 .. n : crawl.urls[i] \in Succeeding(crawl.world))
            /\ crawl.result.success = (\A i \in 1 .. n : crawl.result.results[i].result.success)
            /\ ~crawl.result.success =>
                   \A i \in 1 .. n :
                       LET alone == CrawlAlone(crawl.world, crawl.urls[i])
                       IN  /\ out.results[i].success = alone.success
                           /\ out.results[i].data = IF alone.success THEN alone.data ELSE alone.error
            /\ crawl.result.success =>
                   /\ out.success = TRUE
                   /\ \A i \in 1 .. n :
                          out.results[i].data = CrawlAlone(crawl.world, crawl.urls[i]).data

\* A crawl has returned without success, with an entry of extracted data and
\* an entry of a failed extraction in the output.
C19_Witness ==
    /\ crawl.returned
    /\ ~crawl.result.success
    /\ \E i, j \in 1 .. Len(crawl.urls) :
           /\ crawl.output.results[i].success
           /\ crawl.output.results[i].data = Markdown(crawl.urls[i])
           /\ ~crawl.output.results[j].success
           /\ crawl.output.results[j].data = "ExtractionFailed"

\* C20: a pipeline that is over has the result its URL has when crawled
\* alone, whatever the other URLs of the batch do; the crawl returns only
\* when every pipeline is over, with these results as its entries; and every
\* crawl returns.
C20_FailureIsolation ==
    /\ [](\A i \in 1 .. Len(crawl.urls) :
            /\ crawl.pipes[i].stage = "done" =>
                   crawl.pipes[i].result = CrawlAlone(crawl.world, crawl.urls[i])
            /\ crawl.returned =>
                   /\ crawl.pipes[i].stage = "done"
                   /\ crawl.result.results[i].result = CrawlAlone(crawl.world, crawl.urls[i]))
    /\ <>(crawl.returned)

\* A crawl has returned in which one URL failed after all its fetch
\* attempts and another, placed after it, succeeded.
C20_Witness ==
    /\ crawl.returned
    /\ \E i, j \in 1 .. Len(crawl.urls) :
           /\ i < j
           /\ crawl.pipes[i].attempts = MAX_ATTEMPTS
           /\ crawl.result.results[i].result = CrawlFailure("FetchFailed")
           /\ crawl.result.results[j].result.success

\* C34: the pipeline of a URL that the robots policy of its host disallows
\* never fetches the page: it makes no attempt, never reaches the fetch or
\* the extraction and caches nothing; it ends with success false and the
\* error RobotsDisallowed, and that is the entry of the URL in the result of
\* the crawl and in the output of scrapePages.
C34_RobotsDisallowed ==
    \A i \in Pipes :
        crawl.world[crawl.urls[i]] = "disallowed" =>
            LET url == crawl.urls[i]
                pipe == crawl.pipes[i]
            IN  /\ pipe.attempts = 0
                /\ pipe.stage \in {"queued", "done"}
                /\ url \notin crawl.cache
                /\ pipe.stage = "done" => pipe.result = CrawlFailure("RobotsDisallowed")
                /\ crawl.returned =>
                       /\ ~crawl.result.success
                       /\ crawl.result.results[i] =
                              [url |-> url, result |-> CrawlFailure("RobotsDisallowed")]
                       /\ crawl.output.results[i] =
                              [url |-> url, success |-> FALSE, data |-> "RobotsDisallowed"]

\* A crawl of a disallowed URL and of a page that was fetched and extracted
\* has returned.
C34_Witness ==
    /\ crawl.returned
    /\ \E i, j \in Pipes :
           /\ crawl.world[crawl.urls[i]] = "disallowed"
           /\ crawl.pipes[i].result = CrawlFailure("RobotsDisallowed")
           /\ crawl.pipes[j].attempts > 0
           /\ crawl.pipes[j].result.success

=============================================================================
